---- MODULE Spec2Model ----
(***************************************************************************)
(* Receipt/print pipeline of the shop manager (src/src/utils/posPrint.ts,  *)
(* the POSPrinter class with the five-method fallback chain, lines 1-457). *)
(*                                                                         *)
(* Strings are TLA+ strings.  Characters that cannot be written in a TLA+  *)
(* string have one-character stand-ins:                                    *)
(*    ESC 0x1B "^"   GS 0x1D "~"   LF 0x0A "|"                             *)
(*    0x00 "<"   0x01 "="   0x02 ">"   0x11 "{"   0x03 "}"                 *)
(*    the rupee sign U+20B9 "$" (three bytes "[", "_", "]" once encoded). *)
(* Amounts are integers counted in hundredths (4500 is 45.00).             *)
(***************************************************************************)
EXTENDS Integers, Sequences, FiniteSets, TLC

(***************************************************************************)
(* Bounds of the model.                                                    *)
(***************************************************************************)
MaxItems == 2
MaxClock == 1
MaxCalls == 2
MaxStrLen == 30
MaxStock == 2
MaxQty == 3
MaxAuthCalls == 2

(***************************************************************************)
(* ESC/POS command table, posPrint.ts lines 23-39.                         *)
(***************************************************************************)
ESC == "^"
GS == "~"
LF == "|"
INIT == ESC \o "@"
ALIGN_CENTER == ESC \o "a" \o "="
ALIGN_LEFT == ESC \o "a" \o "<"
ALIGN_RIGHT == ESC \o "a" \o ">"
BOLD_ON == ESC \o "E" \o "="
BOLD_OFF == ESC \o "E" \o "<"
SIZE_NORMAL == GS \o "!" \o "<"
SIZE_DOUBLE == GS \o "!" \o "{"
CUT_PAPER == GS \o "V" \o "A" \o "}"
LINE_FEED == LF

(***************************************************************************)
(* JavaScript string primitives used by the formatter.                     *)
(***************************************************************************)
RECURSIVE repeat(_, _)
repeat(s, n) == IF n <= 0 THEN "" ELSE s \o repeat(s, n - 1)

\* String.prototype.substring(0, n)
substring0(s, n) == IF Len(s) <= n THEN s ELSE SubSeq(s, 1, n)

\* String.prototype.padEnd(w) / padStart(w): pad with spaces, never truncate
padEnd(s, w) == s \o repeat(" ", w - Len(s))
padStart(s, w) == repeat(" ", w - Len(s)) \o s

Digit(d) == SubSeq("0123456789", d + 1, d + 1)

RECURSIVE NatToString(_)
NatToString(n) == IF n < 10 THEN Digit(n) ELSE NatToString(n \div 10) \o Digit(n % 10)

\* Number.prototype.toString() of an integer
toString(n) == IF n < 0 THEN "-" \o NatToString(0 - n) ELSE NatToString(n)

\* Number.prototype.toFixed(2) of an amount given in hundredths
toFixed2(c) ==
    LET a == IF c < 0 THEN 0 - c ELSE c
    IN  (IF c < 0 THEN "-" ELSE "")
            \o NatToString(a \div 100) \o "." \o Digit((a % 100) \div 10) \o Digit(a % 10)

\* new Date().toLocaleString() at clock reading t (one reading per second)
toLocaleString(t) == "11/4/2026, 1:12:0" \o Digit(t) \o " PM"

(***************************************************************************)
(* padLine, posPrint.ts lines 115-128.                                     *)
(***************************************************************************)
col1Width == 16
col2Width == 4
col3Width == 10
col4Width == 10

\* a padLine that pads but never cuts
padLine_noCut(col1, col2, col3, col4) ==
    padEnd(col1, col1Width) \o padStart(col2, col2Width)
        \o padStart(col3, col3Width) \o padStart(col4, col4Width)

padLine(col1, col2, col3, col4) ==
    substring0(padEnd(col1, col1Width), col1Width)
        \o substring0(padStart(col2, col2Width), col2Width)
        \o substring0(padStart(col3, col3Width), col3Width)
        \o substring0(padStart(col4, col4Width), col4Width)

(***************************************************************************)
(* formatReceipt, posPrint.ts lines 41-113.  The receipt string is kept as *)
(* the sequence of the pieces appended by the successive `receipt +=`      *)
(* statements, each labelled with the statement that appended it; Flatten  *)
(* gives the string itself.                                                *)
(***************************************************************************)
Seg(tag, s) == [tag |-> tag, s |-> s]

NameTruncate == 20
SeparatorWidth == 48

Separator == Seg("separator", repeat("-", SeparatorWidth) \o LINE_FEED)

ItemRow(data, item) ==
    LET name == substring0(item.name, NameTruncate)
        qty == toString(item.quantity)
        price == data.currency \o toFixed2(item.price)
        total == data.currency \o toFixed2(item.total)
    IN  Seg("item", padLine(name, qty, price, total) \o LINE_FEED)

\* a formatter that keys the tax line on the tax amount instead of the rate
TaxLineWanted_byAmount(data) == data.tax > 0

\* the condition of line 94
TaxLineWanted(data) == data.taxPercentage > 0

TaxLine(data) ==
    Seg("tax", "Tax (" \o toString(data.taxPercentage) \o "%): "
                 \o data.currency \o toFixed2(data.tax) \o LINE_FEED)

\* a wake-up sequence that initializes once
WakeUp_single == <<Seg("INIT", INIT), Seg("LINE_FEED", "|")>>

\* lines 45-47: initialize, initialize again, line feed
WakeUp == <<Seg("INIT", INIT), Seg("INIT", ESC \o "@"), Seg("LINE_FEED", "|")>>

\* a store name that is not followed by bold off and normal size
StoreHeader_noRevert(data) ==
    <<Seg("ALIGN_CENTER", ALIGN_CENTER), Seg("SIZE_DOUBLE", SIZE_DOUBLE),
      Seg("BOLD_ON", BOLD_ON), Seg("storeName", data.storeName \o LINE_FEED),
      Seg("LINE_FEED", LINE_FEED)>>

\* lines 50-56: the store name, centered, double size, bold
StoreHeader(data) ==
    <<Seg("ALIGN_CENTER", ALIGN_CENTER), Seg("SIZE_DOUBLE", SIZE_DOUBLE),
      Seg("BOLD_ON", BOLD_ON), Seg("storeName", data.storeName \o LINE_FEED),
      Seg("BOLD_OFF", BOLD_OFF), Seg("SIZE_NORMAL", SIZE_NORMAL),
      Seg("LINE_FEED", LINE_FEED)>>

\* a formatter that walks the items from the last to the first
ItemRows_reversed(data) ==
    [k \in 1..Len(data.items) |-> ItemRow(data, data.items[Len(data.items) + 1 - k])]

\* lines 78-86: data.items.forEach appends one row per item
ItemRows(data) == [k \in 1..Len(data.items) |-> ItemRow(data, data.items[k])]

formatReceipt(data, t) ==
    WakeUp \o StoreHeader(data) \o
    <<Seg("ALIGN_LEFT", ALIGN_LEFT), Separator>>
    \o (IF data.customerName # ""
          THEN <<Seg("customer", "Customer: " \o data.customerName \o LINE_FEED)>>
          ELSE <<>>)
    \o (IF data.customerPhone # ""
          THEN <<Seg("phone", "Phone: " \o data.customerPhone \o LINE_FEED)>>
          ELSE <<>>)
    \o <<Seg("date", "Date: " \o toLocaleString(t) \o LINE_FEED),
         Seg("payment", "Payment: " \o data.paymentMethod \o LINE_FEED),
         Separator,
         Seg("header", padLine("Item", "Qty", "Price", "Total") \o LINE_FEED),
         Separator>>
    \o ItemRows(data)
    \o <<Separator, Seg("ALIGN_RIGHT", ALIGN_RIGHT),
         Seg("subtotal", "Subtotal: " \o data.currency
                            \o toFixed2(data.subtotal) \o LINE_FEED)>>
    \o (IF TaxLineWanted(data) THEN <<TaxLine(data)>> ELSE <<>>)
    \o <<Seg("BOLD_ON", BOLD_ON),
         Seg("total", "TOTAL: " \o data.currency \o toFixed2(data.total) \o LINE_FEED),
         Seg("BOLD_OFF", BOLD_OFF),
         Seg("ALIGN_CENTER", ALIGN_CENTER), Seg("LINE_FEED", LINE_FEED),
         Seg("thanks", "Thank you for your business!" \o LINE_FEED),
         Seg("LINE_FEED", LINE_FEED), Seg("LINE_FEED", LINE_FEED),
         Seg("CUT_PAPER", CUT_PAPER)>>

RECURSIVE Flatten(_)
Flatten(segs) == IF segs = <<>> THEN "" ELSE Head(segs).s \o Flatten(Tail(segs))

\* TextEncoder.encode: UTF-8, one byte per character except the rupee sign
RECURSIVE encode(_)
encode(s) ==
    IF Len(s) = 0 THEN ""
    ELSE IF Len(s) = 1 THEN (IF s = "$" THEN "[_]" ELSE s)
    ELSE LET h == Len(s) \div 2
         IN  encode(SubSeq(s, 1, h)) \o encode(SubSeq(s, h + 1, Len(s)))

(***************************************************************************)
(* Inputs.                                                                 *)
(***************************************************************************)
ItemPool ==
    { [name |-> "Turmeric Powder", quantity |-> 2, price |-> 4500, total |-> 9000],
      [name |-> "Kashmiri Red Chilli Powder 500", quantity |-> 12345,
       price |-> 123456789, total |-> 5] }

RECURSIVE SeqsUpTo(_, _)
SeqsUpTo(S, n) ==
    IF n = 0 THEN {<<>>}
    ELSE SeqsUpTo(S, n - 1)
            \cup {Append(q, e) : q \in {r \in SeqsUpTo(S, n - 1) : Len(r) = n - 1}, e \in S}

\* PrintData values handed to formatReceipt
Receipts ==
    { [storeName |-> "Krushnkamal Masale", customerName |-> c[1], customerPhone |-> c[2],
       items |-> its, subtotal |-> 9000, tax |-> tx, taxPercentage |-> pct,
       total |-> 9000 + tx, currency |-> "$", paymentMethod |-> pm] :
         c \in {<<"", "">>, <<"Walk-in", "9876543210">>},
         its \in SeqsUpTo(ItemPool, MaxItems),
         tx \in {0, 1620}, pct \in {0 - 5, 0, 18}, pm \in {"cash", "upi"} }

\* PrintData values handed to print
PrintJobs ==
    { r \in Receipts : /\ r.customerName = "Walk-in" /\ r.paymentMethod = "cash"
                       /\ Len(r.items) = 1 /\ r.items[1].quantity = 2
                       /\ r.tax = 1620 /\ r.taxPercentage = 18 }

\* a string of n characters
StringOfLen(n) == SubSeq("Kashmiri Red Chilli Powder 500g pack", 1, n)

\* column values handed to padLine: empty, shorter than, as long as and longer
\* than each column
ColumnStrings ==
    { StringOfLen(n) : n \in {0, 1, col2Width, col2Width + 1, col3Width, col3Width + 1,
                              col1Width, col1Width + 1, MaxStrLen} }

\* what the runtime exposes: navigator.usb, window.Android, window.androidIntent,
\* window.external.print, navigator.serial
Runtimes ==
    [usb : BOOLEAN, Android : BOOLEAN, androidIntent : BOOLEAN,
     external : BOOLEAN, serial : BOOLEAN]

Strategies == {"usb", "android", "windows", "network", "serial", "browser"}

VARIABLES
    nav,           \* the runtime's capabilities
    data,          \* the PrintData of the print call
    now,           \* the clock, in seconds
    callNo,        \* number of print calls started
    pc,            \* position of the print call
    result,        \* "none", "resolved" or "rejected": how print settled
    receiptData,   \* receiptData of printViaPOSCommand (line 152)
    methodIdx,     \* index of the for loop of line 162
    ipIdx,         \* index of the for loop of line 231
    baudIdx,       \* index of the for loop of line 259
    connected,     \* line 257
    serialData,    \* receiptData of printViaSerial (line 281)
    dataArray,     \* line 285
    i,             \* line 289
    usbOpen,       \* the USB device is open
    portOpen,      \* the serial port is open
    formatCount,   \* calls of formatReceipt in this print call
    attempts,      \* strategies entered in this print call, in order
    outcome,       \* how each strategy ended in this print call
    handed,        \* payloads given to transports in this print call
    delivered,     \* transports that took the whole payload in this print call
    written,       \* chunks written to the serial port in this print call
    browserCalls,  \* calls of printViaBrowser in this print call
    windowsOpened, \* windows that printViaBrowser filled in this print call
    contacted,     \* addresses fetch was called with in this print call, in order
    baudTried,     \* baud rates port.open was called with in this print call
    writeCalls,    \* calls of writer.write in this print call
    fmtData,       \* formatter harness: the receipt
    fmtOut,        \* formatter harness: the last output of formatReceipt
    padIn,         \* padLine harness: col1..col4
    padOut,        \* padLine harness: the last output of padLine
    billPc,        \* position of printBill, the caller of print
    toasts,        \* toasts shown by this printBill invocation
    callPc,        \* overlapping calls: position of each print call
    callMethodIdx, \* overlapping calls: index of the loop of line 162, per call
    callBaudIdx,   \* overlapping calls: index of the loop of line 259, per call
    callI,         \* overlapping calls: i of line 289, per call
    callLen,       \* overlapping calls: dataArray.length of line 289
    callPort,      \* overlapping calls: "none", "granted", "open" or "closed"
    wire,          \* overlapping calls: the calls whose chunks went out, in
                   \* order, one entry per run of chunks of the same call
    simplePc,      \* simple variant: position of its print call
    simpleResult,  \* simple variant: "none", "resolved" or "rejected"
    simpleAttempts,\* simple variant: strategies entered, in order
    simpleOutcome, \* simple variant: how each strategy ended
    component,     \* cart: "sales" (SalesInterface) or "settings" (SettingsSection)
    products,      \* cart: stock of each product as loaded by fetchProducts
    tax_percentage,\* cart: settings.tax_percentage
    cart,          \* cart: the cart items, in order
    printData,     \* cart: the printData printBill built last, or <<>>
    store,         \* sale: the stored stock of the product
    salePc,        \* sale: position of processSale, per terminal
    saleQuantity,  \* sale: quantity of the product in the terminal's cart
    saleLoaded,    \* sale: stock of the product as loaded by the terminal
    saleRead,      \* sale: currentInventory.quantity_in_stock read by the terminal
    profile,       \* auth: the profile state of useAuth, <<>> for null
    masala_shop_user, \* auth: localStorage['masala_shop_user'], <<>> when absent
    loading,       \* auth: the loading state of useAuth
    location,      \* auth: the route the router shows
    authLog        \* auth: the calls of signIn and signOut with what they returned

envVars == <<nav, data>>
posVars == <<receiptData, methodIdx, ipIdx>>
serVars == <<baudIdx, connected, serialData, dataArray, i>>
devVars == <<usbOpen, portOpen>>
ioVars == <<contacted, baudTried, writeCalls>>
logVars == <<formatCount, attempts, outcome, handed, delivered, written,
             browserCalls, windowsOpened, ioVars>>
fmtVars == <<fmtData, fmtOut>>
padVars == <<padIn, padOut>>
\* the variables no step of a print call touches
concVars == <<callPc, callMethodIdx, callBaudIdx, callI, callLen, callPort, wire>>
simpleVars == <<simplePc, simpleResult, simpleAttempts, simpleOutcome>>
cartVars == <<component, products, tax_percentage, cart, printData>>
saleVars == <<store, salePc, saleQuantity, saleLoaded, saleRead>>
authVars == <<profile, masala_shop_user, loading, location, authLog>>
shopVars == <<cartVars, saleVars, authVars>>
sideVars == <<padVars, concVars, simpleVars, shopVars>>
callerVars == <<billPc, toasts>>
\* the variables of one print call and its caller
mainVars == <<envVars, now, callNo, pc, result, posVars, serVars, devVars, logVars,
              fmtVars, callerVars>>
vars == <<mainVars, sideVars>>

NoOutcome == [s \in Strategies |-> "none"]

CallReset ==
    /\ result' = "none"
    /\ receiptData' = <<>> /\ methodIdx' = 1 /\ ipIdx' = 1
    /\ baudIdx' = 1 /\ connected' = FALSE /\ serialData' = <<>>
    /\ dataArray' = "" /\ i' = 0
    /\ formatCount' = 0 /\ attempts' = <<>> /\ outcome' = NoOutcome
    /\ handed' = <<>> /\ delivered' = <<>> /\ written' = <<>>
    /\ browserCalls' = 0 /\ windowsOpened' = 0
    /\ contacted' = <<>> /\ baudTried' = <<>> /\ writeCalls' = 0

\* print calls that may overlap: the print button stays enabled while a
\* print is in progress (SalesInterface.tsx lines 399-404)
Calls == {1, 2}

\* no overlapping call has been made
ConcIdle ==
    /\ callPc = [c \in Calls |-> "idle"]
    /\ callMethodIdx = [c \in Calls |-> 1]
    /\ callBaudIdx = [c \in Calls |-> 1]
    /\ callI = [c \in Calls |-> 0]
    /\ callPort = [c \in Calls |-> "none"]
    /\ wire = <<>>

\* the strategies of the simple variant, lines 600-614
SimpleStrategies == {"serial", "rawtext", "browser"}

\* the simple variant's print has not been called
SimpleIdle ==
    /\ simplePc = "idle"
    /\ simpleResult = "none"
    /\ simpleAttempts = <<>>
    /\ simpleOutcome = [s \in SimpleStrategies |-> "none"]

\* the products on sale: name and price in hundredths of the currency unit
ProductIds == {"p1", "p2"}

Catalog ==
    [p \in ProductIds |->
       IF p = "p1" THEN [name |-> "Turmeric Powder", price |-> 4500]
                   ELSE [name |-> "Garam Masala", price |-> 12000]]

\* the sales screen has not been used
CartIdle ==
    /\ component = "sales"
    /\ products = [p \in ProductIds |-> 0]
    /\ tax_percentage = 18
    /\ cart = <<>>
    /\ printData = <<>>

\* two terminals with the sales screen open
Terminals == {"t1", "t2"}

\* no sale has been started
SaleIdle ==
    /\ store = 0
    /\ salePc = [t \in Terminals |-> "idle"]
    /\ saleQuantity = [t \in Terminals |-> 0]
    /\ saleLoaded = [t \in Terminals |-> 0]
    /\ saleRead = [t \in Terminals |-> 0]

\* the hook has not run its effect and nobody is signed in
AuthIdle ==
    /\ profile = <<>>
    /\ masala_shop_user = <<>>
    /\ loading = TRUE
    /\ location = "/"
    /\ authLog = <<>>

ShopIdle == CartIdle /\ SaleIdle /\ AuthIdle

\* the harnesses are at rest
SideIdle ==
    /\ padIn = <<"", "", "", "">> /\ padOut = ""
    /\ ConcIdle /\ callLen = 0
    /\ SimpleIdle
    /\ ShopIdle

\* no print call has been made
Idle ==
    /\ callNo = 0
    /\ pc = "idle"
    /\ result = "none"
    /\ receiptData = <<>> /\ methodIdx = 1 /\ ipIdx = 1
    /\ baudIdx = 1 /\ connected = FALSE /\ serialData = <<>>
    /\ dataArray = "" /\ i = 0
    /\ usbOpen = FALSE /\ portOpen = FALSE
    /\ formatCount = 0 /\ attempts = <<>> /\ outcome = NoOutcome
    /\ handed = <<>> /\ delivered = <<>> /\ written = <<>>
    /\ browserCalls = 0 /\ windowsOpened = 0
    /\ contacted = <<>> /\ baudTried = <<>> /\ writeCalls = 0
    /\ billPc = "idle" /\ toasts = <<>>

Init ==
    /\ nav \in Runtimes
    /\ data \in PrintJobs
    /\ now = 0
    /\ Idle
    /\ fmtData = CHOOSE r \in PrintJobs : TRUE
    /\ fmtOut = <<>>
    /\ SideIdle

(***************************************************************************)
(* The orchestrator: print (lines 130-149) and printViaPOSCommand (lines   *)
(* 151-173).  Every await is one step; what the device, the host hook or   *)
(* the network answers is chosen by the environment.                       *)
(***************************************************************************)
\* a methods array with the bridge ranked above the USB device
methods_bridgeFirst == <<"android", "usb", "windows", "network">>

\* the methods array, lines 155-160
methods == <<"usb", "android", "windows", "network">>

\* first statement of each method
Entry(m) ==
    CASE m = "usb" -> "usb_check"
      [] m = "android" -> "android"
      [] m = "windows" -> "windows"
      [] m = "network" -> "socket"

\* a step inside a strategy that neither ends it nor settles print
Goto(p) == pc' = p /\ UNCHANGED <<result, methodIdx, outcome>>

\* a loop without the return of line 165
MethodSucceeded_noReturn(m) ==
    /\ outcome' = [outcome EXCEPT ![m] = "ok"]
    /\ methodIdx' = methodIdx + 1
    /\ pc' = "pos_loop"
    /\ UNCHANGED result

\* lines 164-165: the awaited method resolved, printViaPOSCommand returns and
\* print resolves
MethodSucceeded(m) ==
    /\ outcome' = [outcome EXCEPT ![m] = "ok"]
    /\ result' = "resolved"
    /\ pc' = "done"
    /\ UNCHANGED methodIdx

\* a loop without the catch of line 166, and a print that does not catch either
MethodFailed_uncaught(m) ==
    /\ outcome' = [outcome EXCEPT ![m] = "failed"]
    /\ result' = "rejected"
    /\ pc' = "done"
    /\ UNCHANGED methodIdx

\* a loop that calls the method that rejected again
MethodFailed_retry(m) ==
    /\ outcome' = [outcome EXCEPT ![m] = "failed"]
    /\ pc' = "pos_loop"
    /\ UNCHANGED <<result, methodIdx>>

\* lines 166-169: the awaited method rejected, the loop goes on
MethodFailed(m) ==
    /\ outcome' = [outcome EXCEPT ![m] = "failed"]
    /\ methodIdx' = methodIdx + 1
    /\ pc' = "pos_loop"
    /\ UNCHANGED result

\* a print without the catch of line 134
POSCommandFailed_uncaught ==
    /\ result' = "rejected"
    /\ pc' = "done"
    /\ UNCHANGED <<methodIdx, outcome>>

\* lines 134-141: printViaPOSCommand threw, print tries the serial port
POSCommandFailed == pc' = "serial_check" /\ UNCHANGED <<result, methodIdx, outcome>>

\* a print without the catch of line 143
SerialFailed_uncaught ==
    /\ outcome' = [outcome EXCEPT !["serial"] = "failed"]
    /\ result' = "rejected"
    /\ pc' = "done"
    /\ UNCHANGED methodIdx

\* a print that asks for the port again when the serial attempt threw
SerialFailed_retry ==
    /\ outcome' = [outcome EXCEPT !["serial"] = "failed"]
    /\ pc' = "serial_request"
    /\ UNCHANGED <<result, methodIdx>>

\* lines 143-146: the serial attempt threw, print falls back to the browser
SerialFailed ==
    /\ outcome' = [outcome EXCEPT !["serial"] = "failed"]
    /\ pc' = "browser"
    /\ UNCHANGED <<result, methodIdx>>

\* lines 139, 149: printViaSerial resolved, print resolves
SerialSucceeded ==
    /\ outcome' = [outcome EXCEPT !["serial"] = "ok"]
    /\ result' = "resolved"
    /\ pc' = "done"
    /\ UNCHANGED methodIdx

\* lines 146-149: printViaBrowser returned, print resolves
BrowserReturned(win) ==
    /\ outcome' = [outcome EXCEPT !["browser"] = IF win THEN "ok" ELSE "failed"]
    /\ result' = "resolved"
    /\ pc' = "done"
    /\ UNCHANGED methodIdx

\* what a step of a method of printViaPOSCommand leaves alone
MethodFrame ==
    UNCHANGED <<envVars, now, callNo, receiptData, serVars, formatCount, attempts,
                handed, written, browserCalls, windowsOpened, baudTried, writeCalls,
                fmtVars, sideVars, callerVars>>

\* what a step of the serial attempt leaves alone
SerialFrame ==
    UNCHANGED <<envVars, now, callNo, posVars, usbOpen, browserCalls, windowsOpened,
                contacted, fmtVars, sideVars, callerVars>>

\* the clock advances while a call is in progress
Tick ==
    /\ pc \notin {"idle", "done"}
    /\ now < MaxClock
    /\ now' = now + 1
    /\ UNCHANGED <<envVars, callNo, pc, result, posVars, serVars, devVars, logVars,
                   fmtVars, sideVars, callerVars>>

\* line 130: print(data) is called (by printBill, see printBill_import)
print ==
    /\ pc \in {"idle", "done"}
    /\ callNo < MaxCalls
    /\ callNo' = callNo + 1
    /\ CallReset
    /\ pc' = "pos_format"
    /\ UNCHANGED <<envVars, now, devVars, fmtVars, sideVars>>

\* line 152
printViaPOSCommand_format ==
    /\ pc = "pos_format"
    /\ receiptData' = formatReceipt(data, now)
    /\ formatCount' = formatCount + 1
    /\ pc' = "pos_loop"
    /\ UNCHANGED <<envVars, now, callNo, result, methodIdx, ipIdx, serVars, devVars,
                   attempts, outcome, handed, delivered, written, browserCalls,
                   windowsOpened, ioVars, fmtVars, sideVars, callerVars>>

\* lines 162-164: the next method is called with receiptData;
\* line 172: none is left
printViaPOSCommand_loop ==
    /\ pc = "pos_loop"
    /\ IF methodIdx <= Len(methods)
         THEN LET m == methods[methodIdx]
              IN  /\ attempts' = Append(attempts, m)
                  /\ handed' = Append(handed, [to |-> m, payload |-> receiptData])
                  /\ Goto(Entry(m))
         ELSE /\ POSCommandFailed
              /\ UNCHANGED <<attempts, handed>>
    /\ UNCHANGED <<envVars, now, callNo, receiptData, ipIdx, serVars, devVars,
                   formatCount, delivered, written, browserCalls, windowsOpened,
                   ioVars, fmtVars, sideVars, callerVars>>

(***************************************************************************)
(* printViaWebUSB, lines 175-199.                                          *)
(***************************************************************************)
\* a printViaWebUSB without the test of line 176
printViaWebUSB_check_unchecked ==
    /\ pc = "usb_check"
    /\ Goto("usb_request")
    /\ UNCHANGED <<ipIdx, contacted, devVars, delivered>>
    /\ MethodFrame

\* line 176
printViaWebUSB_check ==
    /\ pc = "usb_check"
    /\ IF nav.usb THEN Goto("usb_request") ELSE MethodFailed("usb")
    /\ UNCHANGED <<ipIdx, contacted, devVars, delivered>>
    /\ MethodFrame

\* line 179: requestDevice
printViaWebUSB_requestDevice ==
    /\ pc = "usb_request"
    /\ \E ok \in BOOLEAN : IF ok THEN Goto("usb_open") ELSE MethodFailed("usb")
    /\ UNCHANGED <<ipIdx, contacted, devVars, delivered>>
    /\ MethodFrame

\* a printViaWebUSB that goes on when device.open rejected
printViaWebUSB_open_ignored ==
    /\ pc = "usb_open"
    /\ \E ok \in BOOLEAN :
          IF ok THEN usbOpen' = TRUE /\ Goto("usb_config")
                ELSE UNCHANGED usbOpen /\ Goto("usb_config")
    /\ UNCHANGED <<ipIdx, contacted, portOpen, delivered>>
    /\ MethodFrame

\* line 187: device.open
printViaWebUSB_open ==
    /\ pc = "usb_open"
    /\ \E ok \in BOOLEAN :
          IF ok THEN usbOpen' = TRUE /\ Goto("usb_config")
                ELSE UNCHANGED usbOpen /\ MethodFailed("usb")
    /\ UNCHANGED <<ipIdx, contacted, portOpen, delivered>>
    /\ MethodFrame

\* line 188: device.selectConfiguration
printViaWebUSB_selectConfiguration ==
    /\ pc = "usb_config"
    /\ \E ok \in BOOLEAN : IF ok THEN Goto("usb_claim") ELSE MethodFailed("usb")
    /\ UNCHANGED <<ipIdx, contacted, devVars, delivered>>
    /\ MethodFrame

\* line 189: device.claimInterface
printViaWebUSB_claimInterface ==
    /\ pc = "usb_claim"
    /\ \E ok \in BOOLEAN : IF ok THEN Goto("usb_transfer") ELSE MethodFailed("usb")
    /\ UNCHANGED <<ipIdx, contacted, devVars, delivered>>
    /\ MethodFrame

\* lines 191-194: device.transferOut of the encoded payload
printViaWebUSB_transferOut ==
    /\ pc = "usb_transfer"
    /\ \E ok \in BOOLEAN :
          IF ok THEN delivered' = Append(delivered, "usb") /\ Goto("usb_close")
                ELSE UNCHANGED delivered /\ MethodFailed("usb")
    /\ UNCHANGED <<ipIdx, contacted, devVars>>
    /\ MethodFrame

\* line 195: device.close; when it rejects the device may or may not be closed
printViaWebUSB_close ==
    /\ pc = "usb_close"
    /\ \E ok \in BOOLEAN :
          IF ok THEN usbOpen' = FALSE /\ MethodSucceeded("usb")
                ELSE usbOpen' \in BOOLEAN /\ MethodFailed("usb")
    /\ UNCHANGED <<ipIdx, contacted, portOpen, delivered>>
    /\ MethodFrame

(***************************************************************************)
(* The platform bridges, lines 201-225.  A hook that is present may throw. *)
(***************************************************************************)
\* lines 201-215
printViaAndroidIntent ==
    /\ pc = "android"
    /\ IF nav.Android \/ nav.androidIntent
         THEN \E ok \in BOOLEAN :
                IF ok THEN delivered' = Append(delivered, "android")
                           /\ MethodSucceeded("android")
                      ELSE UNCHANGED delivered /\ MethodFailed("android")
         ELSE UNCHANGED delivered /\ MethodFailed("android")
    /\ UNCHANGED <<ipIdx, contacted, devVars>>
    /\ MethodFrame

\* lines 217-225
printViaWindowsPrint ==
    /\ pc = "windows"
    /\ IF nav.external
         THEN \E ok \in BOOLEAN :
                IF ok THEN delivered' = Append(delivered, "windows")
                           /\ MethodSucceeded("windows")
                      ELSE UNCHANGED delivered /\ MethodFailed("windows")
         ELSE UNCHANGED delivered /\ MethodFailed("windows")
    /\ UNCHANGED <<ipIdx, contacted, devVars>>
    /\ MethodFrame

(***************************************************************************)
(* printViaRawSocket, lines 227-248.                                       *)
(***************************************************************************)
printerIPs == <<"192.168.1.100", "192.168.0.100", "10.0.0.100">>

\* a loop that gives up when an address answers with a rejection
SocketAnswer_rejectionThrows(r) ==
    IF r = "ok"
      THEN /\ delivered' = Append(delivered, "network")
           /\ MethodSucceeded("network")
           /\ UNCHANGED ipIdx
      ELSE /\ UNCHANGED delivered
           /\ ipIdx' = ipIdx + 1
           /\ IF ipIdx < Len(printerIPs) /\ r = "unreachable"
                THEN Goto("socket") ELSE MethodFailed("network")

\* lines 241-247: response.ok returns; any other response and a fetch that
\* throws (line 242) go on to the next address; after the last, line 247 throws
SocketAnswer(r) ==
    IF r = "ok"
      THEN /\ delivered' = Append(delivered, "network")
           /\ MethodSucceeded("network")
           /\ UNCHANGED ipIdx
      ELSE /\ UNCHANGED delivered
           /\ ipIdx' = ipIdx + 1
           /\ IF ipIdx < Len(printerIPs) THEN Goto("socket")
                                         ELSE MethodFailed("network")

\* lines 231-247: one fetch; the printer accepts (response.ok), answers with
\* a rejection, or cannot be reached (fetch throws)
printViaRawSocket ==
    /\ pc = "socket"
    /\ ipIdx <= Len(printerIPs)
    /\ contacted' = Append(contacted, printerIPs[ipIdx])
    /\ \E r \in {"ok", "rejected", "unreachable"} : SocketAnswer(r)
    /\ UNCHANGED devVars
    /\ MethodFrame

(***************************************************************************)
(* The serial attempt: lines 138-141 of print and printViaSerial, lines    *)
(* 250-300.                                                                *)
(***************************************************************************)
\* a candidate list in ascending order
baudRates_ascending == <<9600, 19200, 38400, 115200>>

\* line 256
baudRates == <<9600, 115200, 38400, 19200>>
chunkSize == 64

\* a slice that takes the byte at index to as well
slice_inclusiveEnd(a, from, to) ==
    SubSeq(a, from + 1, IF to + 1 < Len(a) THEN to + 1 ELSE Len(a))

\* Uint8Array.prototype.slice(from, to)
slice(a, from, to) == SubSeq(a, from + 1, IF to < Len(a) THEN to ELSE Len(a))

\* lines 138-141
print_serialCheck ==
    /\ pc = "serial_check"
    /\ attempts' = Append(attempts, "serial")
    /\ IF nav.serial THEN Goto("serial_request") ELSE SerialFailed
    /\ UNCHANGED <<serVars, portOpen, formatCount, handed, delivered, written,
                   baudTried, writeCalls>>
    /\ SerialFrame

\* line 253: requestPort
printViaSerial_requestPort ==
    /\ pc = "serial_request"
    /\ \E ok \in BOOLEAN : IF ok THEN Goto("serial_open") ELSE SerialFailed
    /\ UNCHANGED <<serVars, portOpen, formatCount, attempts, handed, delivered,
                   written, baudTried, writeCalls>>
    /\ SerialFrame

\* lines 259-278: port.open at baudRates[baudIdx]
printViaSerial_open ==
    /\ pc = "serial_open"
    /\ baudIdx <= Len(baudRates)
    /\ baudTried' = Append(baudTried, baudRates[baudIdx])
    /\ \E ok \in BOOLEAN :
          IF ok
            THEN /\ connected' = TRUE
                 /\ portOpen' = TRUE
                 /\ Goto("serial_writer")
                 /\ UNCHANGED baudIdx
            ELSE /\ baudIdx' = baudIdx + 1
                 /\ UNCHANGED <<connected, portOpen>>
                 /\ IF baudIdx < Len(baudRates) THEN Goto("serial_open")
                                                ELSE SerialFailed
    /\ UNCHANGED <<serialData, dataArray, i, formatCount, attempts, handed,
                   delivered, written, writeCalls>>
    /\ SerialFrame

\* lines 280-289: the writer is taken, the receipt is formatted and encoded
printViaSerial_format ==
    /\ pc = "serial_writer"
    /\ LET formatted == formatReceipt(data, now)
           bytes == encode(Flatten(formatted))
       IN  /\ serialData' = formatted
           /\ dataArray' = bytes
           /\ handed' = Append(handed, [to |-> "serial", payload |-> formatted])
           /\ Goto(IF 0 < Len(bytes) THEN "serial_write" ELSE "serial_close")
    /\ formatCount' = formatCount + 1
    /\ i' = 0
    /\ UNCHANGED <<baudIdx, connected, portOpen, attempts, delivered, written,
                   baudTried, writeCalls>>
    /\ SerialFrame

\* lines 290-291: writer.write of one chunk
printViaSerial_write ==
    /\ pc = "serial_write"
    /\ writeCalls' = writeCalls + 1
    /\ \E ok \in BOOLEAN :
          IF ok
            THEN /\ written' = Append(written, slice(dataArray, i, i + chunkSize))
                 /\ delivered' = IF i + chunkSize >= Len(dataArray)
                                   THEN Append(delivered, "serial") ELSE delivered
                 /\ Goto("serial_delay")
            ELSE /\ UNCHANGED <<written, delivered>>
                 /\ SerialFailed
    /\ UNCHANGED <<serVars, portOpen, formatCount, attempts, handed, baudTried>>
    /\ SerialFrame

\* lines 292, 289: the pause has elapsed, i += chunkSize
printViaSerial_delay ==
    /\ pc = "serial_delay"
    /\ i' = i + chunkSize
    /\ Goto(IF i' < Len(dataArray) THEN "serial_write" ELSE "serial_close")
    /\ UNCHANGED <<baudIdx, connected, serialData, dataArray, portOpen, formatCount,
                   attempts, handed, delivered, written, baudTried, writeCalls>>
    /\ SerialFrame

\* lines 295-296: releaseLock, port.close; when close rejects the port may or
\* may not be closed
printViaSerial_close ==
    /\ pc = "serial_close"
    /\ \E ok \in BOOLEAN :
          IF ok THEN portOpen' = FALSE /\ SerialSucceeded
                ELSE portOpen' \in BOOLEAN /\ SerialFailed
    /\ UNCHANGED <<serVars, formatCount, attempts, handed, delivered, written,
                   baudTried, writeCalls>>
    /\ SerialFrame

(***************************************************************************)
(* printViaBrowser, lines 359-456, called at line 146.  window.open gives  *)
(* a window or null.                                                       *)
(***************************************************************************)
printViaBrowser ==
    /\ pc = "browser"
    /\ attempts' = Append(attempts, "browser")
    /\ browserCalls' = browserCalls + 1
    /\ \E win \in BOOLEAN :
          /\ windowsOpened' = IF win THEN windowsOpened + 1 ELSE windowsOpened
          /\ BrowserReturned(win)
    /\ UNCHANGED <<envVars, now, callNo, receiptData, ipIdx, serVars, devVars,
                   formatCount, handed, delivered, written, ioVars, fmtVars, sideVars,
                   callerVars>>

(***************************************************************************)
(* printBill, the caller of print: SalesInterface.tsx lines 227-261 (and   *)
(* SettingsSection.tsx lines 578-612).                                     *)
(***************************************************************************)
\* a catch block that logs and shows nothing
ImportFailedToasts_silent == toasts

\* lines 253-259 after the import of line 247 rejected
ImportFailedToasts == Append(toasts, "Print Error")

\* lines 249-252 when print resolved, lines 253-259 when it rejected
ToastFor(res) == IF res = "resolved" THEN "Receipt Printed" ELSE "Print Error"

\* lines 227-246: the print button is clicked, printData is built
printBill ==
    /\ billPc \in {"idle", "shown", "import_failed"}
    /\ pc \in {"idle", "done"}
    /\ callNo < MaxCalls
    /\ billPc' = "import"
    /\ toasts' = <<>>
    /\ UNCHANGED <<envVars, now, callNo, pc, result, posVars, serVars, devVars,
                   logVars, fmtVars, sideVars>>

\* lines 247-248: the print module is imported; when the import resolves
\* POSPrinter.print(printData) is called, when it rejects the catch block runs
printBill_import ==
    /\ billPc = "import"
    /\ \E ok \in BOOLEAN :
          IF ok
            THEN /\ print
                 /\ billPc' = "printing"
                 /\ UNCHANGED toasts
            ELSE /\ billPc' = "import_failed"
                 /\ toasts' = ImportFailedToasts
                 /\ UNCHANGED <<envVars, now, callNo, pc, result, posVars, serVars,
                                devVars, logVars, fmtVars, sideVars>>

\* lines 249-259: print has settled, the toast is shown
printBill_toast ==
    /\ billPc = "printing"
    /\ pc = "done"
    /\ toasts' = Append(toasts, ToastFor(result))
    /\ billPc' = "shown"
    /\ UNCHANGED <<envVars, now, callNo, pc, result, posVars, serVars, devVars,
                   logVars, fmtVars, sideVars>>

Next ==
    \/ Tick
    \/ printBill
    \/ printBill_import
    \/ printBill_toast
    \/ printViaPOSCommand_format
    \/ printViaPOSCommand_loop
    \/ printViaWebUSB_check
    \/ printViaWebUSB_requestDevice
    \/ printViaWebUSB_open
    \/ printViaWebUSB_selectConfiguration
    \/ printViaWebUSB_claimInterface
    \/ printViaWebUSB_transferOut
    \/ printViaWebUSB_close
    \/ printViaAndroidIntent
    \/ printViaWindowsPrint
    \/ printViaRawSocket
    \/ print_serialCheck
    \/ printViaSerial_requestPort
    \/ printViaSerial_open
    \/ printViaSerial_format
    \/ printViaSerial_write
    \/ printViaSerial_delay
    \/ printViaSerial_close
    \/ printViaBrowser

Spec == Init /\ [][Next]_vars

(***************************************************************************)
(* The formatter on its own: formatReceipt applied to every receipt of     *)
(* Receipts at every clock reading.                                        *)
(***************************************************************************)
InitFormat ==
    /\ nav = [usb |-> FALSE, Android |-> FALSE, androidIntent |-> FALSE,
              external |-> FALSE, serial |-> FALSE]
    /\ data = CHOOSE r \in PrintJobs : TRUE
    /\ now \in 0..MaxClock
    /\ Idle
    /\ fmtData \in Receipts
    /\ fmtOut = <<>>
    /\ SideIdle

\* formatReceipt(fmtData) is called, lines 41-113
formatReceipt_call ==
    /\ fmtOut' = formatReceipt(fmtData, now)
    /\ UNCHANGED <<envVars, now, callNo, pc, result, posVars, serVars, devVars,
                   logVars, fmtData, sideVars, callerVars>>

NextFormat == formatReceipt_call

SpecFormat == InitFormat /\ [][NextFormat]_vars

(***************************************************************************)
(* padLine on its own: applied to every choice of four column strings.     *)
(***************************************************************************)
InitPad ==
    /\ nav = [usb |-> FALSE, Android |-> FALSE, androidIntent |-> FALSE,
              external |-> FALSE, serial |-> FALSE]
    /\ data = CHOOSE r \in PrintJobs : TRUE
    /\ now = 0
    /\ Idle
    /\ fmtData = CHOOSE r \in PrintJobs : TRUE
    /\ fmtOut = <<>>
    /\ padIn \in [1..4 -> ColumnStrings]
    /\ padOut = ""
    /\ ConcIdle /\ callLen = 0
    /\ SimpleIdle
    /\ ShopIdle

\* padLine(col1, col2, col3, col4) is called, lines 115-128
padLine_call ==
    /\ padOut' = padLine(padIn[1], padIn[2], padIn[3], padIn[4])
    /\ UNCHANGED <<mainVars, padIn, concVars, simpleVars, shopVars>>

NextPad == padLine_call

SpecPad == InitPad /\ [][NextPad]_vars

(***************************************************************************)
(* Overlapping print calls.  print is a static async method without shared *)
(* state (lines 130-149), and the print button that calls it stays enabled *)
(* while a call is in progress (SalesInterface.tsx lines 399-404), so a    *)
(* second call may start at any await of the first.  Each call advances by *)
(* one POS method or one await of the serial attempt; the environment      *)
(* chooses what each awaited call answers.                                 *)
(***************************************************************************)
\* the encoded receipt every overlapping call writes (lines 281-285): the
\* calls print the same sale within the same second
ConcPayload == encode(Flatten(formatReceipt(data, now)))

\* what a method needs from the runtime: lines 176, 202-212, 219
Capable(m) ==
    CASE m = "usb" -> nav.usb
      [] m = "android" -> nav.Android \/ nav.androidIntent
      [] m = "windows" -> nav.external
      [] m = "network" -> TRUE

\* a print that waits until no other call is in progress
MayRun_exclusive(c) == \A d \in Calls \ {c} : callPc[d] \in {"idle", "done"}

\* lines 130-131: print tests nothing before it starts
MayRun(c) == TRUE

InSerial(c) ==
    callPc[c] \in {"serial_request", "serial_open", "serial_writer", "serial_write",
                   "serial_delay", "serial_close"}

ConcGoto(c, p) == callPc' = [callPc EXCEPT ![c] = p]

ConcFrame == UNCHANGED <<mainVars, padVars, simpleVars, shopVars>>

\* line 130: the button is clicked and print is called
conc_print(c) ==
    /\ callPc[c] = "idle"
    /\ MayRun(c)
    /\ ConcGoto(c, "pos_loop")
    /\ UNCHANGED <<callMethodIdx, callBaudIdx, callI, callLen, callPort, wire>>
    /\ ConcFrame

\* lines 162-172: the next method is awaited; a success ends print, and after
\* the last failure printViaPOSCommand throws and print goes to line 138
conc_method(c) ==
    /\ callPc[c] = "pos_loop"
    /\ callMethodIdx[c] <= Len(methods)
    /\ \E ok \in BOOLEAN :
          IF ok /\ Capable(methods[callMethodIdx[c]])
            THEN ConcGoto(c, "done") /\ UNCHANGED callMethodIdx
            ELSE /\ callMethodIdx' = [callMethodIdx EXCEPT ![c] = @ + 1]
                 /\ ConcGoto(c, IF callMethodIdx[c] < Len(methods) THEN "pos_loop"
                                                                  ELSE "serial_check")
    /\ UNCHANGED <<callBaudIdx, callI, callLen, callPort, wire>>
    /\ ConcFrame

\* lines 138-141
conc_serialCheck(c) ==
    /\ callPc[c] = "serial_check"
    /\ ConcGoto(c, IF nav.serial THEN "serial_request" ELSE "browser")
    /\ UNCHANGED <<callMethodIdx, callBaudIdx, callI, callLen, callPort, wire>>
    /\ ConcFrame

\* line 253
conc_requestPort(c) ==
    /\ callPc[c] = "serial_request"
    /\ \E ok \in BOOLEAN :
          IF ok THEN /\ callPort' = [callPort EXCEPT ![c] = "granted"]
                     /\ ConcGoto(c, "serial_open")
                ELSE UNCHANGED callPort /\ ConcGoto(c, "browser")
    /\ UNCHANGED <<callMethodIdx, callBaudIdx, callI, callLen, wire>>
    /\ ConcFrame

\* lines 259-278
conc_open(c) ==
    /\ callPc[c] = "serial_open"
    /\ callBaudIdx[c] <= Len(baudRates)
    /\ \E ok \in BOOLEAN :
          IF ok THEN /\ callPort' = [callPort EXCEPT ![c] = "open"]
                     /\ ConcGoto(c, "serial_writer")
                     /\ UNCHANGED callBaudIdx
                ELSE /\ callBaudIdx' = [callBaudIdx EXCEPT ![c] = @ + 1]
                     /\ UNCHANGED callPort
                     /\ ConcGoto(c, IF callBaudIdx[c] < Len(baudRates)
                                      THEN "serial_open" ELSE "browser")
    /\ UNCHANGED <<callMethodIdx, callI, callLen, wire>>
    /\ ConcFrame

\* lines 280-289
conc_format(c) ==
    /\ callPc[c] = "serial_writer"
    /\ callI' = [callI EXCEPT ![c] = 0]
    /\ ConcGoto(c, IF 0 < callLen THEN "serial_write" ELSE "serial_close")
    /\ UNCHANGED <<callMethodIdx, callBaudIdx, callLen, callPort, wire>>
    /\ ConcFrame

\* lines 290-291
conc_write(c) ==
    /\ callPc[c] = "serial_write"
    /\ \E ok \in BOOLEAN :
          IF ok THEN /\ wire' = IF wire # <<>> /\ wire[Len(wire)] = c
                                  THEN wire ELSE Append(wire, c)
                     /\ ConcGoto(c, "serial_delay")
                ELSE UNCHANGED wire /\ ConcGoto(c, "browser")
    /\ UNCHANGED <<callMethodIdx, callBaudIdx, callI, callLen, callPort>>
    /\ ConcFrame

\* lines 292, 289
conc_delay(c) ==
    /\ callPc[c] = "serial_delay"
    /\ callI' = [callI EXCEPT ![c] = @ + chunkSize]
    /\ ConcGoto(c, IF callI[c] + chunkSize < callLen THEN "serial_write"
                                                     ELSE "serial_close")
    /\ UNCHANGED <<callMethodIdx, callBaudIdx, callLen, callPort, wire>>
    /\ ConcFrame

\* lines 295-296
conc_close(c) ==
    /\ callPc[c] = "serial_close"
    /\ \E ok \in BOOLEAN :
          IF ok THEN /\ callPort' = [callPort EXCEPT ![c] = "closed"]
                     /\ ConcGoto(c, "done")
                ELSE /\ \E st \in {"open", "closed"} :
                          callPort' = [callPort EXCEPT ![c] = st]
                     /\ ConcGoto(c, "browser")
    /\ UNCHANGED <<callMethodIdx, callBaudIdx, callI, callLen, wire>>
    /\ ConcFrame

\* line 146
conc_browser(c) ==
    /\ callPc[c] = "browser"
    /\ ConcGoto(c, "done")
    /\ UNCHANGED <<callMethodIdx, callBaudIdx, callI, callLen, callPort, wire>>
    /\ ConcFrame

\* the step call c is waiting for
conc_step(c) ==
    \/ conc_print(c)
    \/ conc_method(c)
    \/ conc_serialCheck(c)
    \/ conc_requestPort(c)
    \/ conc_open(c)
    \/ conc_format(c)
    \/ conc_write(c)
    \/ conc_delay(c)
    \/ conc_close(c)
    \/ conc_browser(c)

\* runtimes with every POS hook present, with and without navigator.serial:
\* a missing hook only removes the success branch of its method
ConcRuntimes ==
    { r \in Runtimes : r.usb /\ r.Android /\ r.androidIntent /\ r.external }

InitConc ==
    /\ nav \in ConcRuntimes
    /\ data = CHOOSE r \in PrintJobs : TRUE
    /\ now = 0
    /\ Idle
    /\ fmtData = CHOOSE r \in PrintJobs : TRUE
    /\ fmtOut = <<>>
    /\ padIn = <<"", "", "", "">> /\ padOut = ""
    /\ ConcIdle
    /\ callLen = Len(ConcPayload)
    /\ SimpleIdle
    /\ ShopIdle

NextConc ==
    \/ \E c \in Calls : conc_print(c)
    \/ \E c \in Calls : conc_method(c)
    \/ \E c \in Calls : conc_serialCheck(c)
    \/ \E c \in Calls : conc_requestPort(c)
    \/ \E c \in Calls : conc_open(c)
    \/ \E c \in Calls : conc_format(c)
    \/ \E c \in Calls : conc_write(c)
    \/ \E c \in Calls : conc_delay(c)
    \/ \E c \in Calls : conc_close(c)
    \/ \E c \in Calls : conc_browser(c)

SpecConc == InitConc /\ [][NextConc]_vars

(***************************************************************************)
(* The simple variant of the print utility, lines 600-634 and 636-659,     *)
(* followed by a call of the rich variant in the same runtime.             *)
(***************************************************************************)
\* a print that always takes the serial branch
SimpleFirst_serialOnly(serialPresent) == "serial"

\* lines 603-608: the strategy print starts with
SimpleFirst(serialPresent) == IF serialPresent THEN "serial" ELSE "rawtext"

SimpleFrame == UNCHANGED <<mainVars, padVars, concVars, shopVars>>

SimpleGoto(p) == simplePc' = p /\ UNCHANGED <<simpleResult, simpleAttempts, simpleOutcome>>

\* lines 609-612: the awaited strategy threw, print calls printViaBrowser
SimpleFailed(st) ==
    /\ simpleOutcome' = [simpleOutcome EXCEPT ![st] = "failed"]
    /\ simplePc' = "browser"
    /\ UNCHANGED <<simpleResult, simpleAttempts>>

\* lines 604, 607, 614: the awaited strategy resolved, print resolves
SimpleSucceeded(st) ==
    /\ simpleOutcome' = [simpleOutcome EXCEPT ![st] = "ok"]
    /\ simpleResult' = "resolved"
    /\ simplePc' = "done"
    /\ UNCHANGED simpleAttempts

\* lines 600-608: print is called
simple_print ==
    /\ simplePc = "idle"
    /\ simpleAttempts' = <<SimpleFirst(nav.serial)>>
    /\ simplePc' = IF SimpleFirst(nav.serial) = "serial" THEN "serial_request"
                                                       ELSE "rawtext"
    /\ UNCHANGED <<simpleResult, simpleOutcome>>
    /\ SimpleFrame

\* line 619: requestPort
simple_requestPort ==
    /\ simplePc = "serial_request"
    /\ \E ok \in BOOLEAN : IF ok THEN SimpleGoto("serial_open") ELSE SimpleFailed("serial")
    /\ SimpleFrame

\* line 620: port.open at 9600 baud
simple_open ==
    /\ simplePc = "serial_open"
    /\ \E ok \in BOOLEAN : IF ok THEN SimpleGoto("serial_write") ELSE SimpleFailed("serial")
    /\ SimpleFrame

\* lines 622-627: the whole receipt is written at once
simple_write ==
    /\ simplePc = "serial_write"
    /\ \E ok \in BOOLEAN : IF ok THEN SimpleGoto("serial_close") ELSE SimpleFailed("serial")
    /\ SimpleFrame

\* lines 629-630: releaseLock, port.close
simple_close ==
    /\ simplePc = "serial_close"
    /\ \E ok \in BOOLEAN : IF ok THEN SimpleSucceeded("serial") ELSE SimpleFailed("serial")
    /\ SimpleFrame

\* lines 636-659: printViaRawText copies the text receipt and dispatches
\* Ctrl+P; a DOM call may throw
simple_rawText ==
    /\ simplePc = "rawtext"
    /\ \E ok \in BOOLEAN : IF ok THEN SimpleSucceeded("rawtext") ELSE SimpleFailed("rawtext")
    /\ SimpleFrame

\* lines 612, 693-790: printViaBrowser; window.open gives a window or null
simple_browser ==
    /\ simplePc = "browser"
    /\ simpleAttempts' = Append(simpleAttempts, "browser")
    /\ \E win \in BOOLEAN :
          simpleOutcome' = [simpleOutcome EXCEPT !["browser"] = IF win THEN "ok" ELSE "failed"]
    /\ simpleResult' = "resolved"
    /\ simplePc' = "done"
    /\ SimpleFrame

\* lines 130-132: the rich variant's print is called in the same runtime
rich_print ==
    /\ simplePc = "done"
    /\ callNo = 0
    /\ print
    /\ UNCHANGED callerVars

NextSimple ==
    \/ simple_print
    \/ simple_requestPort
    \/ simple_open
    \/ simple_write
    \/ simple_close
    \/ simple_rawText
    \/ simple_browser
    \/ rich_print
    \/ Tick
    \/ printViaPOSCommand_format
    \/ printViaPOSCommand_loop
    \/ printViaWebUSB_check
    \/ printViaWebUSB_requestDevice
    \/ printViaWebUSB_open
    \/ printViaWebUSB_selectConfiguration
    \/ printViaWebUSB_claimInterface
    \/ printViaWebUSB_transferOut
    \/ printViaWebUSB_close
    \/ printViaAndroidIntent
    \/ printViaWindowsPrint
    \/ printViaRawSocket
    \/ print_serialCheck
    \/ printViaSerial_requestPort
    \/ printViaSerial_open
    \/ printViaSerial_format
    \/ printViaSerial_write
    \/ printViaSerial_delay
    \/ printViaSerial_close
    \/ printViaBrowser

SpecSimple == Init /\ [][NextSimple]_vars

(***************************************************************************)
(* The cart of the sales screen: SalesInterface.tsx lines 93-142 and        *)
(* 227-244, and its copy in SettingsSection.tsx lines 433-502 and 578-594. *)
(* Amounts are in hundredths of the currency unit.                         *)
(***************************************************************************)
\* everything but the variables of the cart is at rest
RestOfShop ==
    /\ nav = [usb |-> FALSE, Android |-> FALSE, androidIntent |-> FALSE,
              external |-> FALSE, serial |-> FALSE]
    /\ data = CHOOSE r \in PrintJobs : TRUE
    /\ now = 0
    /\ Idle
    /\ fmtData = CHOOSE r \in PrintJobs : TRUE
    /\ fmtOut = <<>>
    /\ padIn = <<"", "", "", "">> /\ padOut = ""
    /\ ConcIdle /\ callLen = 0
    /\ SimpleIdle

InCart(c, p) == \E k \in 1..Len(c) : c[k].id = p

\* the quantity of product p in cart c, 0 when it is not in the cart
QuantityIn(c, p) ==
    IF InCart(c, p) THEN (c[CHOOSE k \in 1..Len(c) : c[k].id = p]).quantity ELSE 0

\* cart.filter(item => item.id !== productId)
removeFromCart(c, p) == SelectSeq(c, LAMBDA item : item.id # p)

\* cart.map(item => item.id === productId ? {...item, quantity, total} : item)
SetQuantity(c, p, n) ==
    [k \in 1..Len(c) |->
       IF c[k].id = p THEN [id |-> p, quantity |-> n, total |-> Catalog[p].price * n]
                      ELSE c[k]]

\* SalesInterface.tsx lines 119-130; SettingsSection.tsx lines 465-488
updateCartQuantity(comp, stock, c, p, n) ==
    IF n <= 0 THEN removeFromCart(c, p)
    ELSE IF comp = "settings" /\ n > stock[p] THEN c
    ELSE SetQuantity(c, p, n)

\* SalesInterface.tsx lines 93-117; SettingsSection.tsx lines 433-463
addToCart(comp, stock, c, p) ==
    IF comp = "sales"
      THEN IF QuantityIn(c, p) + 1 > stock[p] THEN c
           ELSE IF InCart(c, p)
             THEN updateCartQuantity(comp, stock, c, p, QuantityIn(c, p) + 1)
             ELSE Append(c, [id |-> p, quantity |-> 1, total |-> Catalog[p].price])
      ELSE IF stock[p] <= 0 THEN c
           ELSE IF InCart(c, p)
             THEN (IF QuantityIn(c, p) >= stock[p] THEN c
                   ELSE SetQuantity(c, p, QuantityIn(c, p) + 1))
             ELSE Append(c, [id |-> p, quantity |-> 1, total |-> Catalog[p].price])

\* cart.reduce((sum, item) => sum + item.total, 0)
RECURSIVE calculateSubtotal(_)
calculateSubtotal(c) ==
    IF c = <<>> THEN 0 ELSE Head(c).total + calculateSubtotal(Tail(c))

\* SalesInterface.tsx lines 140-142 return the subtotal; SettingsSection.tsx
\* lines 498-502 add the tax
calculateTotal(comp, c, pct) ==
    IF comp = "sales" THEN calculateSubtotal(c)
    ELSE calculateSubtotal(c) + (calculateSubtotal(c) * pct) \div 100

\* SalesInterface.tsx lines 228-244; SettingsSection.tsx lines 579-595
BuildPrintData(comp, c, pct) ==
    [storeName |-> "Krushnkamal Masale", customerName |-> "Walk-in",
     customerPhone |-> "",
     items |-> [k \in 1..Len(c) |->
                  [name |-> Catalog[c[k].id].name, quantity |-> c[k].quantity,
                   price |-> Catalog[c[k].id].price, total |-> c[k].total]],
     subtotal |-> calculateSubtotal(c),
     tax |-> (calculateSubtotal(c) * pct) \div 100,
     taxPercentage |-> pct,
     total |-> calculateTotal(comp, c, pct),
     currency |-> "$", paymentMethod |-> "cash"]

CartFrame == UNCHANGED <<mainVars, padVars, concVars, simpleVars, saleVars, authVars>>

InitCart ==
    /\ RestOfShop
    /\ SaleIdle
    /\ AuthIdle
    /\ component \in {"sales", "settings"}
    /\ products \in [ProductIds -> 0..MaxStock]
    /\ tax_percentage \in {0, 18}
    /\ cart = <<>>
    /\ printData = <<>>

\* a product card or its Add to Cart button is clicked
addToCart_click ==
    /\ \E p \in ProductIds : cart' = addToCart(component, products, cart, p)
    /\ UNCHANGED <<component, products, tax_percentage, printData>>
    /\ CartFrame

\* the minus or the plus button of a cart item is clicked
updateCartQuantity_click ==
    /\ \E k \in 1..Len(cart), d \in {0 - 1, 1} :
          /\ cart[k].quantity + d <= MaxQty
          /\ cart' = updateCartQuantity(component, products, cart, cart[k].id,
                                        cart[k].quantity + d)
    /\ UNCHANGED <<component, products, tax_percentage, printData>>
    /\ CartFrame

\* SettingsSection.tsx line 775: the remove button of a cart item is clicked
removeFromCart_click ==
    /\ component = "settings"
    /\ \E k \in 1..Len(cart) : cart' = removeFromCart(cart, cart[k].id)
    /\ UNCHANGED <<component, products, tax_percentage, printData>>
    /\ CartFrame

\* the print button is clicked: printBill builds printData
printBill_build ==
    /\ printData' = BuildPrintData(component, cart, tax_percentage)
    /\ UNCHANGED <<component, products, tax_percentage, cart>>
    /\ CartFrame

NextCart ==
    \/ addToCart_click
    \/ updateCartQuantity_click
    \/ removeFromCart_click
    \/ printBill_build

SpecCart == InitCart /\ [][NextCart]_vars

(***************************************************************************)
(* processSale on two terminals selling the same product:                  *)
(* SalesInterface.tsx lines 144-225, SettingsSection.tsx lines 504-565.    *)
(* Every await is one step; the data store answers each request with       *)
(* success or an error.                                                    *)
(***************************************************************************)
\* the stock of the product before any sale
InitialStock == 2 * MaxQty

SaleFrame ==
    UNCHANGED <<mainVars, padVars, concVars, simpleVars, products, tax_percentage,
                cart, printData, authVars>>

SaleGoto(t, p) == salePc' = [salePc EXCEPT ![t] = p]

InitSale ==
    /\ RestOfShop
    /\ AuthIdle
    /\ component \in {"sales", "settings"}
    /\ products = [p \in ProductIds |-> 0]
    /\ tax_percentage = 18
    /\ cart = <<>>
    /\ printData = <<>>
    /\ store = InitialStock
    /\ salePc = [t \in Terminals |-> "idle"]
    /\ saleQuantity = [t \in Terminals |-> 0]
    /\ saleLoaded = [t \in Terminals |-> InitialStock]
    /\ saleRead = [t \in Terminals |-> 0]

\* Complete Sale is clicked with the product in the cart
processSale(t) ==
    /\ salePc[t] = "idle"
    /\ \E q \in 1..MaxQty : saleQuantity' = [saleQuantity EXCEPT ![t] = q]
    /\ SaleGoto(t, "insert_sale")
    /\ UNCHANGED <<component, store, saleLoaded, saleRead>>
    /\ SaleFrame

\* SalesInterface.tsx lines 157-169: the sale record is inserted
processSale_insertSale(t) ==
    /\ salePc[t] = "insert_sale"
    /\ \E ok \in BOOLEAN : SaleGoto(t, IF ok THEN "insert_items" ELSE "failed")
    /\ UNCHANGED <<component, store, saleQuantity, saleLoaded, saleRead>>
    /\ SaleFrame

\* SalesInterface.tsx lines 172-184: the sale items are inserted; the loop
\* over the cart starts with a select (SalesInterface.tsx line 188) or with
\* the update (SettingsSection.tsx line 546)
processSale_insertItems(t) ==
    /\ salePc[t] = "insert_items"
    /\ \E ok \in BOOLEAN :
          SaleGoto(t, IF ~ok THEN "failed"
                      ELSE IF component = "sales" THEN "select" ELSE "update")
    /\ UNCHANGED <<component, store, saleQuantity, saleLoaded, saleRead>>
    /\ SaleFrame

\* SalesInterface.tsx lines 188-194: the current stock is read; when no row
\* comes back the update is skipped
processSale_select(t) ==
    /\ salePc[t] = "select"
    /\ \E ok \in BOOLEAN :
          IF ok THEN /\ saleRead' = [saleRead EXCEPT ![t] = store]
                     /\ SaleGoto(t, "update")
                ELSE /\ UNCHANGED saleRead
                     /\ SaleGoto(t, "done")
    /\ UNCHANGED <<component, store, saleQuantity, saleLoaded>>
    /\ SaleFrame

\* SalesInterface.tsx lines 195-201: the stock read minus the quantity is
\* written; SettingsSection.tsx lines 547-552: the stock loaded with the
\* product minus the quantity is written
processSale_update(t) ==
    /\ salePc[t] = "update"
    /\ \E ok \in BOOLEAN :
          IF ok THEN /\ store' = (IF component = "sales" THEN saleRead[t]
                                                         ELSE saleLoaded[t])
                                  - saleQuantity[t]
                     /\ SaleGoto(t, "done")
                ELSE /\ UNCHANGED store
                     /\ SaleGoto(t, "failed")
    /\ UNCHANGED <<component, saleQuantity, saleLoaded, saleRead>>
    /\ SaleFrame

NextSale ==
    \/ \E t \in Terminals : processSale(t)
    \/ \E t \in Terminals : processSale_insertSale(t)
    \/ \E t \in Terminals : processSale_insertItems(t)
    \/ \E t \in Terminals : processSale_select(t)
    \/ \E t \in Terminals : processSale_update(t)

SpecSale == InitSale /\ [][NextSale]_vars

(***************************************************************************)
(* The sign-in hook: useAuth of src/unnamed/part_000 lines 1-79.  One      *)
(* instance of the hook is modelled; the session is kept in the browser's  *)
(* local storage under the key masala_shop_user as JSON text.              *)
(***************************************************************************)
\* the hardcoded users
USERS ==
    [u \in {"Saurabh", "employee"} |->
       IF u = "Saurabh"
       THEN [password |-> "saurabh89", role |-> "owner", full_name |-> "Saurabh"]
       ELSE [password |-> "12345", role |-> "employee", full_name |-> "Employee"]]

\* the user names and passwords typed into the form
Usernames == {"Saurabh", "employee", "guest"}
Passwords == {"saurabh89", "12345", "wrong"}

\* the profile signIn builds for a user of USERS
ProfileOf(username) ==
    [id |-> username, role |-> USERS[username].role,
     full_name |-> USERS[username].full_name, username |-> username]

Profiles == {ProfileOf(u) : u \in DOMAIN USERS}

\* JSON.stringify of a Profile
JSON_stringify(p) ==
    "{\"id\":\"" \o p.id \o "\",\"role\":\"" \o p.role \o "\",\"full_name\":\""
       \o p.full_name \o "\",\"username\":\"" \o p.username \o "\"}"

\* JSON.parse of a text of local storage: the text is either the JSON of a
\* profile or not JSON at all, and then JSON.parse throws
JSON_parses(text) == \E p \in Profiles : JSON_stringify(p) = text
JSON_parse(text) == CHOOSE p \in Profiles : JSON_stringify(p) = text

\* what local storage may hold when the page loads
SavedSessions ==
    {<<>>, <<"not json">>} \cup {<<JSON_stringify(p)>> : p \in Profiles}

\* the condition of line 40, negated, with the password comparison left out
Authenticates_userOnly(username, password) == username \in DOMAIN USERS

\* the condition of line 40, negated: the user exists and the password is theirs
Authenticates(username, password) ==
    /\ username \in DOMAIN USERS
    /\ USERS[username].password = password

AuthFrame == UNCHANGED <<mainVars, padVars, concVars, simpleVars, cartVars, saleVars>>

InitAuth ==
    /\ RestOfShop
    /\ CartIdle
    /\ SaleIdle
    /\ profile = <<>>
    /\ masala_shop_user \in SavedSessions
    /\ loading = TRUE
    /\ location \in {"/", "/auth"}
    /\ authLog = <<>>

\* the effect of lines 22-35, run once after the first render
useEffect_load ==
    /\ loading
    /\ IF masala_shop_user = <<>>
       THEN UNCHANGED <<profile, masala_shop_user>>
       ELSE IF JSON_parses(masala_shop_user[1])
            THEN /\ profile' = <<JSON_parse(masala_shop_user[1])>>
                 /\ UNCHANGED masala_shop_user
            ELSE /\ masala_shop_user' = <<>>
                 /\ UNCHANGED profile
    /\ loading' = FALSE
    /\ UNCHANGED <<location, authLog>>
    /\ AuthFrame

\* signIn of lines 37-58
signIn(username, password) ==
    /\ ~loading
    /\ Len(authLog) < MaxAuthCalls
    /\ IF Authenticates(username, password)
       THEN /\ profile' = <<ProfileOf(username)>>
            /\ masala_shop_user' = <<JSON_stringify(ProfileOf(username))>>
            /\ authLog' = Append(authLog, [op |-> "signIn", username |-> username,
                                           password |-> password, error |-> FALSE])
       ELSE /\ UNCHANGED <<profile, masala_shop_user>>
            /\ authLog' = Append(authLog, [op |-> "signIn", username |-> username,
                                           password |-> password, error |-> TRUE])
    /\ UNCHANGED <<loading, location>>
    /\ AuthFrame

\* signOut of lines 60-65
signOut ==
    /\ ~loading
    /\ Len(authLog) < MaxAuthCalls
    /\ profile' = <<>>
    /\ masala_shop_user' = <<>>
    /\ location' = "/auth"
    /\ authLog' = Append(authLog, [op |-> "signOut", username |-> "",
                                   password |-> "", error |-> FALSE])
    /\ UNCHANGED loading
    /\ AuthFrame

NextAuth ==
    \/ useEffect_load
    \/ \E username \in Usernames, password \in Passwords : signIn(username, password)
    \/ signOut

SpecAuth == InitAuth /\ [][NextAuth]_vars

TypeOK ==
    /\ pc \in {"idle", "pos_format", "pos_loop", "usb_check", "usb_request", "usb_open",
               "usb_config", "usb_claim", "usb_transfer", "usb_close", "android",
               "windows", "socket", "serial_check", "serial_request", "serial_open",
               "serial_writer", "serial_write", "serial_delay", "serial_close",
               "browser", "done"}
    /\ result \in {"none", "resolved", "rejected"}
    /\ outcome \in [Strategies -> {"none", "ok", "failed"}]
    /\ callNo \in 0..MaxCalls /\ now \in 0..MaxClock

(***************************************************************************)
(* Properties.                                                             *)
(***************************************************************************)
\* the priority order of the strategies
Order == <<"usb", "android", "windows", "network", "serial", "browser">>

Rank(s) == CHOOSE k \in 1..Len(Order) : Order[k] = s

Count(seq, e) == Cardinality({k \in 1..Len(seq) : seq[k] = e})

Device == {"usb", "android", "windows", "network", "serial"}

StartsWith(s, p) == Len(s) >= Len(p) /\ SubSeq(s, 1, Len(p)) = p

\* C1: in every print call the strategies are attempted in the order USB,
\* Android hook, Windows hook, network, serial, browser, and a strategy is
\* attempted only after every strategy ranked above it was attempted and failed.
C1_PriorityOrder ==
    /\ Len(attempts) <= Len(Order)
    /\ \A k \in 1..Len(attempts) :
          /\ attempts[k] = Order[k]
          /\ \A j \in 1..(k - 1) : outcome[attempts[j]] = "failed"

C1_Witness ==
    /\ pc = "done"
    /\ attempts = Order
    /\ outcome["browser"] = "ok"

\* C2: once a strategy has succeeded in a print call, no strategy ranked below
\* it is invoked in that call.
C2_NoLowerAfterSuccess ==
    \A s \in Strategies :
        outcome[s] = "ok" =>
            \A t \in Strategies : Rank(t) > Rank(s) => Count(attempts, t) = 0

C2_Witness ==
    /\ pc = "done"
    /\ outcome["usb"] = "failed"
    /\ outcome["android"] = "ok"
    /\ attempts = <<"usb", "android">>

\* C3: when every strategy has failed, the browser fallback included (window.open
\* gave no window), print reports failure to its caller.
C3_AllFailedIsReported ==
    (pc = "done" /\ \A s \in Strategies : outcome[s] = "failed") => result = "rejected"

\* C4: when the USB, bridge, network and serial strategies have all failed, print
\* invokes the browser fallback, exactly once, and reports success.
C4_FallsBackToBrowser ==
    (\A s \in Device : outcome[s] = "failed") =>
        /\ pc \in {"browser", "done"}
        /\ pc = "done" =>
              /\ browserCalls = 1
              /\ Count(attempts, "browser") = 1
              /\ result = "resolved"

C4_Witness ==
    /\ pc = "done"
    /\ \A s \in Device : outcome[s] = "failed"
    /\ browserCalls = 1
    /\ windowsOpened = 1
    /\ result = "resolved"

\* C5: print reports success whenever a strategy succeeded, and reports failure
\* only when every strategy was attempted and failed.
C5_OverallOutcome ==
    /\ pc = "done" => result \in {"resolved", "rejected"}
    /\ (\E s \in Strategies : outcome[s] = "ok") => result = "resolved"
    /\ result = "rejected" =>
          \A s \in Strategies : Count(attempts, s) = 1 /\ outcome[s] = "failed"

C5_Witness ==
    /\ pc = "done"
    /\ result = "resolved"
    /\ outcome["network"] = "ok"
    /\ \A s \in {"usb", "android", "windows"} : outcome[s] = "failed"

\* C6: a failure inside the USB, bridge, network or serial strategy, at whatever
\* step, never leaves print: print does not reject, and the strategy that
\* follows the failed one in the order is what is attempted next.
C6_FailuresAreCaught ==
    /\ result # "rejected"
    /\ \A k \in 1..Len(attempts) :
          (attempts[k] \in Device /\ outcome[attempts[k]] = "failed") =>
              IF k < Len(attempts)
                THEN attempts[k + 1] = Order[Rank(attempts[k]) + 1]
                ELSE pc \in {"pos_loop", "serial_check", "browser"}

C6_Witness ==
    /\ outcome["usb"] = "failed"
    /\ usbOpen
    /\ delivered = <<>>
    /\ Len(attempts) >= 2
    /\ attempts[2] = "android"

\* C7: within one print call the receipt is formatted exactly once and every
\* transport attempt is handed that one payload.
C7_FormattedOnce ==
    /\ formatCount <= 1
    /\ \A k \in 1..Len(handed) : handed[k].payload = receiptData

\* C8: whenever the USB or the serial strategy has returned control to the
\* orchestrator, the device or port it opened is closed.
C8_HandlesReleased ==
    /\ pc \notin {"usb_config", "usb_claim", "usb_transfer", "usb_close"} => ~usbOpen
    /\ pc \notin {"serial_writer", "serial_write", "serial_delay", "serial_close"}
          => ~portOpen

\* C9: in a print call that succeeds through the USB, bridge, network or serial
\* strategy the payload reaches a printing device exactly once, and no strategy
\* is attempted twice.
C9_DeliveredOnce ==
    (pc = "done" /\ \E s \in Device : outcome[s] = "ok") =>
        /\ Len(delivered) = 1
        /\ \A s \in Strategies : Count(attempts, s) <= 1

\* the lines of a formatted receipt that are a tax line, a subtotal line, a
\* TOTAL line
LinesWith(out, prefix) == {k \in 1..Len(out) : StartsWith(out[k].s, prefix)}

\* C10: formatReceipt emits a tax line if and only if taxPercentage > 0: none for
\* taxPercentage <= 0, and exactly one, after the subtotal line and before the
\* TOTAL line, for taxPercentage > 0.
C10_TaxLineIffTaxed ==
    fmtOut # <<>> =>
        LET tax == LinesWith(fmtOut, "Tax (")
            sub == LinesWith(fmtOut, "Subtotal: ")
            tot == LinesWith(fmtOut, "TOTAL: ")
        IN  IF fmtData.taxPercentage > 0
              THEN /\ Cardinality(tax) = 1
                   /\ Cardinality(sub) = 1
                   /\ Cardinality(tot) = 1
                   /\ \A k \in tax : \A a \in sub, b \in tot : a < k /\ k < b
              ELSE tax = {}

C10_Witness ==
    /\ fmtOut # <<>>
    /\ fmtData.taxPercentage = 18
    /\ fmtData.tax = 0
    /\ \E k \in 1..Len(fmtOut) : fmtOut[k].s = "Tax (18%): $0.00|"

\* C11: whatever the lengths of the four column strings, the row padLine returns
\* is exactly 16 + 4 + 10 + 10 = 40 characters long.
C11_RowIsFortyWide ==
    padOut # "" =>
        /\ Len(padOut) = col1Width + col2Width + col3Width + col4Width
        /\ Len(padOut) = 40

C11_Witness ==
    /\ padOut # ""
    /\ Len(padIn[1]) > col1Width /\ Len(padIn[2]) > col2Width
    /\ Len(padIn[3]) > col3Width /\ Len(padIn[4]) = 0

\* C12: the row of an item whose name has 30 characters starts with the first 20
\* characters of that name.
C12_FirstTwentyShown ==
    fmtOut # <<>> =>
        \A k \in 1..Len(fmtData.items) :
            Len(fmtData.items[k].name) = 30 =>
                \E j \in 1..Len(fmtOut) :
                    /\ fmtOut[j].tag = "item"
                    /\ StartsWith(fmtOut[j].s, SubSeq(fmtData.items[k].name, 1, NameTruncate))

\* C14 as stated: each printBill invocation ends with exactly one toast, "Receipt
\* Printed" if and only if print resolved and "Print Error" if and only if print
\* rejected.
C14_ToastIffPrintOutcome ==
    billPc \in {"shown", "import_failed"} =>
        /\ Len(toasts) = 1
        /\ toasts[1] = "Receipt Printed" <=> (billPc = "shown" /\ result = "resolved")
        /\ toasts[1] = "Print Error" <=> (billPc = "shown" /\ result = "rejected")

\* C14 amended: each printBill invocation ends with exactly one toast, "Receipt
\* Printed" if and only if print resolved, and "Print Error" if and only if
\* print rejected or the import of the print module failed (print not called).
C14_ToastIffOutcome ==
    /\ billPc \in {"idle", "import", "printing"} => toasts = <<>>
    /\ billPc \in {"shown", "import_failed"} =>
          /\ Len(toasts) = 1
          /\ toasts[1] = "Receipt Printed" <=> (billPc = "shown" /\ result = "resolved")
          /\ toasts[1] = "Print Error" <=>
                (billPc = "import_failed" \/ (billPc = "shown" /\ result = "rejected"))

C14_Witness ==
    /\ billPc = "shown"
    /\ pc = "done"
    /\ result = "resolved"
    /\ toasts = <<"Receipt Printed">>

InCall == pc \notin {"idle", "done"}

\* number of chunks of chunkSize bytes a payload of n bytes is written in
ChunksOf(n) == (n + chunkSize - 1) \div chunkSize

\* how far a print call has come: a number that is at most
\* 61 + 2 * ChunksOf(Len(dataArray))
Progress ==
    CASE pc = "idle" -> 0
      [] pc = "pos_format" -> 0
      [] pc = "pos_loop" -> 10 * methodIdx
      [] pc = "usb_check" -> 11
      [] pc = "usb_request" -> 12
      [] pc = "usb_open" -> 13
      [] pc = "usb_config" -> 14
      [] pc = "usb_claim" -> 15
      [] pc = "usb_transfer" -> 16
      [] pc = "usb_close" -> 17
      [] pc = "android" -> 21
      [] pc = "windows" -> 31
      [] pc = "socket" -> 40 + ipIdx
      [] pc = "serial_check" -> 51
      [] pc = "serial_request" -> 52
      [] pc = "serial_open" -> 52 + baudIdx
      [] pc = "serial_writer" -> 57
      [] pc = "serial_write" -> 58 + 2 * (i \div chunkSize)
      [] pc = "serial_delay" -> 59 + 2 * (i \div chunkSize)
      [] pc = "serial_close" -> 58 + 2 * ChunksOf(Len(dataArray))
      [] pc = "browser" -> 60 + 2 * ChunksOf(Len(dataArray))
      [] pc = "done" -> 61 + 2 * ChunksOf(Len(dataArray))

\* the step the call is waiting for can be taken; the formatting step of
\* line 281 is guarded by its position only and needs its payload defined
CanStep ==
    \/ pc = "pos_format" /\ ENABLED printViaPOSCommand_format
    \/ pc = "pos_loop" /\ ENABLED printViaPOSCommand_loop
    \/ pc = "usb_check" /\ ENABLED printViaWebUSB_check
    \/ pc = "usb_request" /\ ENABLED printViaWebUSB_requestDevice
    \/ pc = "usb_open" /\ ENABLED printViaWebUSB_open
    \/ pc = "usb_config" /\ ENABLED printViaWebUSB_selectConfiguration
    \/ pc = "usb_claim" /\ ENABLED printViaWebUSB_claimInterface
    \/ pc = "usb_transfer" /\ ENABLED printViaWebUSB_transferOut
    \/ pc = "usb_close" /\ ENABLED printViaWebUSB_close
    \/ pc = "android" /\ ENABLED printViaAndroidIntent
    \/ pc = "windows" /\ ENABLED printViaWindowsPrint
    \/ pc = "socket" /\ ENABLED printViaRawSocket
    \/ pc = "serial_check" /\ ENABLED print_serialCheck
    \/ pc = "serial_request" /\ ENABLED printViaSerial_requestPort
    \/ pc = "serial_open" /\ ENABLED printViaSerial_open
    \/ pc = "serial_writer" /\ Len(encode(Flatten(formatReceipt(data, now)))) >= 0
    \/ pc = "serial_write" /\ ENABLED printViaSerial_write
    \/ pc = "serial_delay" /\ ENABLED printViaSerial_delay
    \/ pc = "serial_close" /\ ENABLED printViaSerial_close
    \/ pc = "browser" /\ ENABLED printViaBrowser

\* C15: when every awaited call settles, every print call ends, resolved or
\* rejected, after at most one attempt per strategy, at most 3 fetches, at most
\* 4 port.open calls and at most one write per 64-byte chunk of the payload:
\* a call in progress always has a step to take, every step takes it further
\* along a bounded scale, and the counts stay within their limits.
C15_Terminates ==
    /\ [](/\ \A s \in Strategies : Count(attempts, s) <= 1
          /\ Len(contacted) <= 3
          /\ Len(baudTried) <= 4
          /\ writeCalls <= ChunksOf(Len(dataArray))
          /\ pc = "done" => result \in {"resolved", "rejected"}
          /\ InCall => CanStep)
    /\ [][(InCall /\ now' = now) => Progress' > Progress]_vars

C15_Witness ==
    /\ pc = "done"
    /\ Len(contacted) = 3
    /\ Len(baudTried) = 4
    /\ outcome["browser"] = "ok"

\* C16: print holds no lock.  Whatever the other call is doing, a call that
\* has not returned can take its next step, and a step of one call leaves the
\* position, indices and port of the other call as they are; so both calls
\* can be inside the serial attempt at once, each with its port open, and
\* their chunk writes interleave.
C16_NoLock ==
    /\ [](\A c \in Calls : callPc[c] # "done" => ENABLED conc_step(c))
    /\ [][\A c \in Calls :
            callPc'[c] # callPc[c] =>
              \A d \in Calls \ {c} :
                 /\ callPc'[d] = callPc[d]
                 /\ callMethodIdx'[d] = callMethodIdx[d]
                 /\ callBaudIdx'[d] = callBaudIdx[d]
                 /\ callI'[d] = callI[d]
                 /\ callPort'[d] = callPort[d]]_vars

\* both calls are inside the serial attempt with their ports open, and a
\* chunk of call 2 went out between two chunks of call 1
C16_Witness ==
    /\ \A c \in Calls : InSerial(c) /\ callPort[c] = "open"
    /\ \E j \in 1..Len(wire) - 2 :
          wire[j] = 1 /\ wire[j + 1] = 2 /\ wire[j + 2] = 1

RECURSIVE Concat(_)
Concat(chunks) == IF chunks = <<>> THEN "" ELSE Head(chunks) \o Concat(Tail(chunks))

\* C18: the chunks written to the serial port are, in the order written, the
\* consecutive 64-byte pieces of the encoded payload: each has at most 64
\* bytes, each but the last piece of the payload has exactly 64, together
\* they are a prefix of the payload, and once the last write succeeded they
\* are the whole payload.  Nothing is written while the payload is empty.
C18_ChunksInOrder ==
    /\ \A k \in 1..Len(written) :
          /\ Len(written[k]) <= chunkSize
          /\ k < ChunksOf(Len(dataArray)) => Len(written[k]) = chunkSize
          /\ written[k] = SubSeq(dataArray, (k - 1) * chunkSize + 1,
                                 (k - 1) * chunkSize + Len(written[k]))
    /\ Len(written) <= ChunksOf(Len(dataArray))
    /\ Concat(written) = SubSeq(dataArray, 1, Len(Concat(written)))
    /\ (Count(delivered, "serial") > 0 \/ outcome["serial"] = "ok") => Concat(written) = dataArray
    /\ Len(dataArray) = 0 => written = <<>> /\ writeCalls = 0

\* the serial attempt succeeded after several chunks, the last one short
C18_Witness ==
    /\ outcome["serial"] = "ok"
    /\ Len(written) > 1
    /\ Len(written) = ChunksOf(Len(dataArray))
    /\ Len(written[Len(written)]) < chunkSize
    /\ Concat(written) = dataArray

\* a writer.write of this print call rejected
WriteFailed == writeCalls > Len(written)

\* C19: when a chunk write fails, the serial attempt ends as failed and print
\* goes to the browser fallback; from then on, in that call, no further chunk
\* is written, writer.write is not called again and the serial strategy is
\* not entered a second time.
C19_WriteFailureAborts ==
    /\ [](WriteFailed =>
            /\ writeCalls = Len(written) + 1
            /\ outcome["serial"] = "failed"
            /\ pc \in {"browser", "done"}
            /\ Count(attempts, "serial") = 1
            /\ pc = "browser" => attempts[Len(attempts)] = "serial"
            /\ pc = "done" => /\ attempts[Len(attempts)] = "browser"
                              /\ attempts[Len(attempts) - 1] = "serial"
                              /\ browserCalls = 1)
    /\ [][(pc = "serial_write" /\ pc' # "serial_write" /\ written' = written) =>
            (WriteFailed' /\ pc' = "browser")]_vars
    /\ [][(WriteFailed /\ callNo' = callNo) =>
            (WriteFailed' /\ written' = written /\ writeCalls' = writeCalls)]_vars

\* the third chunk write failed after two chunks went out, and the browser
\* fallback has run
C19_Witness ==
    /\ WriteFailed
    /\ Len(written) = 2
    /\ pc = "done"
    /\ browserCalls = 1

BaudOrder == <<9600, 115200, 38400, 19200>>

\* C20: port.open is called with 9600, 115200, 38400, 19200 in that order;
\* the open that succeeds is the last one made; nothing is written before an
\* open has succeeded; and when no port is granted or all four opens fail the
\* serial attempt fails with no write made.
C20_BaudOrder ==
    /\ [](/\ Len(baudTried) <= Len(BaudOrder)
          /\ \A k \in 1..Len(baudTried) : baudTried[k] = BaudOrder[k]
          /\ connected => baudTried # <<>>
          /\ ~connected => written = <<>> /\ writeCalls = 0 /\ dataArray = ""
          /\ (outcome["serial"] = "failed" /\ ~connected) =>
                /\ pc \in {"browser", "done"}
                /\ baudTried = <<>> \/ baudTried = BaudOrder
          /\ (baudTried = BaudOrder /\ ~connected /\ pc # "serial_open") =>
                outcome["serial"] = "failed")
    /\ [][(pc = "serial_open" /\ pc' # "serial_open" /\ callNo' = callNo) =>
            /\ baudTried' = Append(baudTried, BaudOrder[Len(baudTried) + 1])
            /\ IF connected' THEN pc' = "serial_writer"
                             ELSE pc' = "browser" /\ baudTried' = BaudOrder]_vars
    /\ [][(connected /\ callNo' = callNo) =>
            (connected' /\ baudTried' = baudTried)]_vars

\* the port opened at 38400 after 9600 and 115200 failed, and chunks went out
C20_Witness ==
    /\ connected
    /\ baudTried = <<9600, 115200, 38400>>
    /\ written # <<>>

RECURSIVE IsSubsequence(_, _)
IsSubsequence(a, b) ==
    IF a = <<>> THEN TRUE
    ELSE IF b = <<>> THEN FALSE
    ELSE IF Head(a) = Head(b) THEN IsSubsequence(Tail(a), Tail(b))
    ELSE IsSubsequence(a, Tail(b))

\* serial and browser, the strategies both variants have, ended the same way
\* in the simple call and in the rich call
SharedSame ==
    /\ outcome["serial"] = simpleOutcome["serial"]
    /\ outcome["browser"] = simpleOutcome["browser"]

BothDone == simplePc = "done" /\ pc = "done"

\* C17 as stated: the strategies the simple print attempts are a subsequence
\* of the rich variant's priority order, and both prints settle the same way
\* when serial and browser behaved the same.
C17_SimpleIsSubsequence ==
    /\ IsSubsequence(simpleAttempts, Order)
    /\ (BothDone /\ SharedSame) => simpleResult = result

\* C17, amended: with navigator.serial the simple print attempts serial and
\* then, if it failed, browser, a subsequence of the rich priority order;
\* without navigator.serial it attempts the raw-text strategy, which is not
\* in the rich order, and then, if it failed, browser.  Both prints resolve,
\* so they settle the same way whenever both have returned.
C17_SimpleAttempts ==
    /\ nav.serial =>
          /\ simpleAttempts \in {<<>>, <<"serial">>, <<"serial", "browser">>}
          /\ IsSubsequence(simpleAttempts, Order)
    /\ ~nav.serial =>
          simpleAttempts \in {<<>>, <<"rawtext">>, <<"rawtext", "browser">>}
    /\ Len(simpleAttempts) = 2 => simpleOutcome[simpleAttempts[1]] = "failed"
    /\ simplePc = "done" => simpleResult = "resolved"
    /\ BothDone => simpleResult = result

\* without navigator.serial the simple print tried raw text and fell back to
\* the browser; the rich print in the same runtime fell back to the browser
\* as well, and both resolved
C17_Witness ==
    /\ ~nav.serial
    /\ simpleAttempts = <<"rawtext", "browser">>
    /\ BothDone
    /\ outcome["browser"] = simpleOutcome["browser"]
    /\ attempts = Order
    /\ simpleResult = result

IPOrder == <<"192.168.1.100", "192.168.0.100", "10.0.0.100">>

\* C21: fetch is called with 192.168.1.100, 192.168.0.100, 10.0.0.100 in that
\* order; an accept ends the network strategy as a success and no address is
\* contacted after it; an address that does not accept, whether it rejected
\* or could not be reached, is followed by the next address; and the strategy
\* fails exactly when all three were contacted and none accepted.
C21_NetworkOrder ==
    /\ [](/\ Len(contacted) <= Len(IPOrder)
          /\ \A k \in 1..Len(contacted) : contacted[k] = IPOrder[k]
          /\ Count(delivered, "network") <= 1
          /\ outcome["network"] = "ok" <=> Count(delivered, "network") = 1
          /\ outcome["network"] = "failed" <=>
                (contacted = IPOrder /\ Count(delivered, "network") = 0
                 /\ pc # "socket")
          /\ pc = "socket" => /\ Len(contacted) = ipIdx - 1
                              /\ outcome["network"] = "none")
    /\ [][(pc = "socket" /\ delivered' = delivered /\ callNo' = callNo
           /\ contacted' # contacted) =>
            IF Len(contacted) + 1 < Len(IPOrder)
              THEN pc' = "socket" /\ outcome'["network"] = "none"
              ELSE pc' = "pos_loop" /\ outcome'["network"] = "failed"]_vars
    /\ [][(outcome["network"] # "none" /\ callNo' = callNo) =>
            contacted' = contacted]_vars

\* the second address accepted after the first did not, and print returned
C21_Witness ==
    /\ contacted = <<"192.168.1.100", "192.168.0.100">>
    /\ outcome["network"] = "ok"
    /\ pc = "done"

UsbBeforeTransfer == {"usb_check", "usb_request", "usb_open", "usb_config", "usb_claim"}

\* C22: in a print call the payload goes to the USB device at most once, in
\* one transferOut of the whole receipt, made with the device open and right
\* after claimInterface resolved; when requestDevice, open, selectConfiguration
\* or claimInterface rejects, the strategy fails and no transfer is made.
C22_UsbTransferOnce ==
    /\ [](/\ Count(delivered, "usb") <= 1
          /\ Count(attempts, "usb") <= 1
          /\ pc \in {"usb_config", "usb_claim", "usb_transfer"} => usbOpen
          /\ pc \in UsbBeforeTransfer => Count(delivered, "usb") = 0
          /\ Count(delivered, "usb") = 1 =>
                \E k \in 1..Len(handed) :
                   handed[k] = [to |-> "usb", payload |-> receiptData]
          /\ ~nav.usb => Count(delivered, "usb") = 0)
    /\ [][Count(delivered', "usb") > Count(delivered, "usb") =>
            (pc = "usb_transfer" /\ usbOpen /\ pc' = "usb_close")]_vars
    /\ [][(pc' = "usb_transfer" /\ pc # "usb_transfer") => pc = "usb_claim"]_vars
    /\ [][(pc' = "usb_claim" /\ pc # "usb_claim") => pc = "usb_config"]_vars
    /\ [][(pc' = "usb_config" /\ pc # "usb_config") => (pc = "usb_open" /\ usbOpen')]_vars
    /\ [][(pc \in UsbBeforeTransfer /\ pc' \notin UsbBeforeTransfer \cup {"usb_transfer"}) =>
            /\ pc' = "pos_loop"
            /\ outcome'["usb"] = "failed"
            /\ Count(delivered', "usb") = 0]_vars

\* the device took the payload and the USB strategy succeeded
C22_Witness ==
    /\ outcome["usb"] = "ok"
    /\ delivered = <<"usb">>
    /\ attempts = <<"usb">>
    /\ pc = "done"

UsbDeviceSteps ==
    {"usb_request", "usb_open", "usb_config", "usb_claim", "usb_transfer", "usb_close"}

SerialPortSteps ==
    {"serial_request", "serial_open", "serial_writer", "serial_write", "serial_delay",
     "serial_close"}

\* C23: a mechanism the runtime lacks is skipped without touching a device.
\* Without navigator.usb no device is requested and the USB strategy fails at
\* its first line; without window.Android and window.androidIntent, and
\* without window.external.print, the bridge strategies fail and hand nothing
\* over; without navigator.serial no port is requested or opened and the next
\* step of print is the browser fallback.
C23_MissingMechanismSkipped ==
    /\ [](/\ ~nav.usb =>
                /\ pc \notin UsbDeviceSteps
                /\ ~usbOpen
                /\ outcome["usb"] # "ok" /\ Count(delivered, "usb") = 0
          /\ (~nav.Android /\ ~nav.androidIntent) =>
                outcome["android"] # "ok" /\ Count(delivered, "android") = 0
          /\ ~nav.external =>
                outcome["windows"] # "ok" /\ Count(delivered, "windows") = 0
          /\ ~nav.serial =>
                /\ pc \notin SerialPortSteps
                /\ ~portOpen /\ baudTried = <<>> /\ writeCalls = 0
                /\ outcome["serial"] # "ok" /\ Count(delivered, "serial") = 0
                /\ (pc = "done" /\ outcome["serial"] = "failed") =>
                      /\ browserCalls = 1
                      /\ attempts[Len(attempts)] = "browser"
                      /\ attempts[Len(attempts) - 1] = "serial")
    /\ [][(/\ \/ pc = "usb_check" /\ ~nav.usb
              \/ pc = "android" /\ ~nav.Android /\ ~nav.androidIntent
              \/ pc = "windows" /\ ~nav.external
           /\ pc' # pc) =>
            /\ pc' = "pos_loop"
            /\ methodIdx' = methodIdx + 1
            /\ outcome'[methods[methodIdx]] = "failed"
            /\ delivered' = delivered
            /\ usbOpen' = usbOpen /\ portOpen' = portOpen]_vars
    /\ [][(pc = "serial_check" /\ ~nav.serial /\ pc' # pc) =>
            /\ pc' = "browser"
            /\ outcome'["serial"] = "failed"
            /\ usbOpen' = usbOpen /\ portOpen' = portOpen]_vars

\* a runtime with no mechanism at all: every strategy was skipped in order
\* and the browser fallback ran
C23_Witness ==
    /\ ~nav.usb /\ ~nav.Android /\ ~nav.androidIntent /\ ~nav.external /\ ~nav.serial
    /\ pc = "done"
    /\ attempts = Order
    /\ \A s \in Device \ {"network"} : outcome[s] = "failed"
    /\ browserCalls = 1

\* the positions of out whose control operation or text is tag
TagsAt(out, tag) == {k \in 1..Len(out) : out[k].tag = tag}

EndsWith(s, p) == Len(s) >= Len(p) /\ SubSeq(s, Len(s) - Len(p) + 1, Len(s)) = p

\* C24 as stated: the receipt starts with the initialize sequence, which
\* occurs exactly once, and ends with the paper cut, which occurs exactly once.
C24_InitOnceCutLast ==
    fmtOut # <<>> =>
       /\ fmtOut[1].tag = "INIT"
       /\ Cardinality(TagsAt(fmtOut, "INIT")) = 1
       /\ fmtOut[Len(fmtOut)].tag = "CUT_PAPER"
       /\ Cardinality(TagsAt(fmtOut, "CUT_PAPER")) = 1

\* C24, amended: the receipt starts with the initialize sequence emitted twice
\* in a row, followed by a line feed, and the initialize sequence occurs
\* nowhere else; it ends with the paper cut, which occurs exactly once.
C24_InitTwiceCutLast ==
    fmtOut # <<>> =>
       /\ TagsAt(fmtOut, "INIT") = {1, 2}
       /\ fmtOut[1].s = INIT /\ fmtOut[2].s = INIT
       /\ fmtOut[3].tag = "LINE_FEED"
       /\ StartsWith(Flatten(fmtOut), INIT \o INIT \o LINE_FEED)
       /\ TagsAt(fmtOut, "CUT_PAPER") = {Len(fmtOut)}
       /\ fmtOut[Len(fmtOut)].s = CUT_PAPER
       /\ EndsWith(Flatten(fmtOut), LINE_FEED \o LINE_FEED \o CUT_PAPER)

\* a receipt with an item, a customer and a tax line was formatted
C24_Witness ==
    /\ fmtOut # <<>>
    /\ Len(fmtData.items) = 1
    /\ fmtData.customerName # ""
    /\ TagsAt(fmtOut, "tax") # {}
    /\ fmtOut[1].tag = "INIT" /\ fmtOut[Len(fmtOut)].tag = "CUT_PAPER"

\* the printer mode after initialize
PowerOn == [bold |-> FALSE, double |-> FALSE, align |-> "left"]

\* the printer mode after one more segment of the receipt
ApplyOp(mode, seg) ==
    CASE seg.s = INIT -> PowerOn
      [] seg.s = BOLD_ON -> [mode EXCEPT !.bold = TRUE]
      [] seg.s = BOLD_OFF -> [mode EXCEPT !.bold = FALSE]
      [] seg.s = SIZE_DOUBLE -> [mode EXCEPT !.double = TRUE]
      [] seg.s = SIZE_NORMAL -> [mode EXCEPT !.double = FALSE]
      [] seg.s = ALIGN_LEFT -> [mode EXCEPT !.align = "left"]
      [] seg.s = ALIGN_CENTER -> [mode EXCEPT !.align = "center"]
      [] seg.s = ALIGN_RIGHT -> [mode EXCEPT !.align = "right"]
      [] OTHER -> mode

\* the printer mode after the first k segments of out
RECURSIVE ModeAfter(_, _)
ModeAfter(out, k) == IF k = 0 THEN PowerOn ELSE ApplyOp(ModeAfter(out, k - 1), out[k])

TextTags ==
    {"storeName", "separator", "customer", "phone", "date", "payment", "header",
     "item", "subtotal", "tax", "total", "thanks"}

\* C25: following the control codes of the receipt, the store name is the
\* only text in double size, the store name and the TOTAL line are the only
\* text in bold, item rows are left-aligned, the subtotal, tax and TOTAL
\* lines are right-aligned, and the paper cut comes with bold off and normal
\* size.
C25_PrinterModes ==
    fmtOut # <<>> =>
       /\ \A k \in 1..Len(fmtOut) :
             LET mode == ModeAfter(fmtOut, k - 1)
                 tag == fmtOut[k].tag
             IN  tag \in TextTags =>
                    /\ mode.double <=> tag = "storeName"
                    /\ mode.bold <=> tag \in {"storeName", "total"}
                    /\ tag = "item" => mode.align = "left"
                    /\ tag \in {"subtotal", "tax", "total"} => mode.align = "right"
       /\ TagsAt(fmtOut, "storeName") # {} /\ TagsAt(fmtOut, "total") # {}
       /\ LET atCut == ModeAfter(fmtOut, Len(fmtOut) - 1)
          IN  /\ fmtOut[Len(fmtOut)].s = CUT_PAPER
              /\ ~atCut.bold /\ ~atCut.double

\* a receipt with an item row and a tax line, whose store name is printed
\* bold in double size and whose TOTAL line is printed bold and right-aligned
C25_Witness ==
    /\ fmtOut # <<>>
    /\ TagsAt(fmtOut, "item") # {} /\ TagsAt(fmtOut, "tax") # {}
    /\ \E k \in TagsAt(fmtOut, "storeName") :
          ModeAfter(fmtOut, k - 1) = [bold |-> TRUE, double |-> TRUE, align |-> "center"]
    /\ \E k \in TagsAt(fmtOut, "total") :
          ModeAfter(fmtOut, k - 1) = [bold |-> TRUE, double |-> FALSE, align |-> "right"]

\* C26: the item rows are exactly one per line item, in the order of
\* data.items: they sit right after the separator that follows the header row,
\* the k-th of them is the row of the k-th item, and the closing separator
\* follows the last; with no items the closing separator follows the header's
\* separator directly.
C26_OneRowPerItem ==
    fmtOut # <<>> =>
       LET n == Len(fmtData.items)
           hs == TagsAt(fmtOut, "header")
       IN  /\ Cardinality(hs) = 1
           /\ \A h \in hs :
                 /\ fmtOut[h].s = padLine("Item", "Qty", "Price", "Total") \o LINE_FEED
                 /\ fmtOut[h + 1] = Separator
                 /\ TagsAt(fmtOut, "item") = (h + 2)..(h + 1 + n)
                 /\ \A k \in 1..n : fmtOut[h + 1 + k] = ItemRow(fmtData, fmtData.items[k])
                 /\ fmtOut[h + 2 + n] = Separator
                 /\ fmtOut[h + 3 + n].tag = "ALIGN_RIGHT"

\* two different items were formatted into two rows
C26_Witness ==
    /\ fmtOut # <<>>
    /\ Len(fmtData.items) = 2
    /\ fmtData.items[1] # fmtData.items[2]
    /\ Cardinality(TagsAt(fmtOut, "item")) = 2

\* a receipt without items was formatted: the header row and no item row
C26_WitnessEmpty ==
    /\ fmtOut # <<>>
    /\ fmtData.items = <<>>
    /\ TagsAt(fmtOut, "header") # {}
    /\ TagsAt(fmtOut, "item") = {}

\* C27: every receipt printBill builds adds up: when taxPercentage > 0 its
\* total is its subtotal plus its tax.
C27_TotalIsSubtotalPlusTax ==
    (printData # <<>> /\ printData.taxPercentage > 0) =>
       printData.total = printData.subtotal + printData.tax

\* C28: every cart item's quantity is at least 1 and at most the stock loaded
\* for its product.
C28_QuantityWithinStock ==
    \A k \in 1..Len(cart) :
       /\ cart[k].quantity >= 1
       /\ cart[k].quantity <= products[cart[k].id]

\* the quantity sold by the runs of processSale that showed Sale Completed
RECURSIVE SoldBy(_)
SoldBy(T) ==
    IF T = {} THEN 0
    ELSE LET t == CHOOSE x \in T : TRUE
         IN  (IF salePc[t] = "done" THEN saleQuantity[t] ELSE 0) + SoldBy(T \ {t})

\* C29: when every processSale run that was started has completed
\* successfully, the stored stock is the initial stock minus the quantities
\* sold.
C29_StockMatchesSales ==
    (\A t \in Terminals : salePc[t] \in {"idle", "done"}) =>
       store = InitialStock - SoldBy(Terminals)

\* the credentials are those of a user of USERS
ValidCredentials(username, password) ==
    \/ username = "Saurabh" /\ password = "saurabh89"
    \/ username = "employee" /\ password = "12345"

\* the call of signIn or signOut that this step made
LastCall == authLog'[Len(authLog')]

====
